---- MODULE Spec2Model ----
(***************************************************************************)
(* The pre-commit validation pipeline of scripts/pre_commit_check.py:      *)
(* main, PreCommitChecker.__init__, run_all_checks and the six checks.     *)
(*                                                                         *)
(* External processes and the operator's answers are the environment.  A   *)
(* function of the program that calls them is modelled as an operator      *)
(* that yields the SET of outcomes the environment allows, so an action    *)
(* picks one outcome with \E.                                              *)
(***************************************************************************)
EXTENDS Integers, Sequences, FiniteSets, TLC

VARIABLES
    pc,             \* position of the process in main / run_all_checks
    args,           \* the parsed command line (argparse)
    config,         \* PreCommitChecker.config: where it came from
    strict_mode,    \* PreCommitChecker.strict_mode
    auto_fix,       \* PreCommitChecker.auto_fix
    interactive,    \* PreCommitChecker.interactive
    errors,         \* PreCommitChecker.errors
    warnings,       \* PreCommitChecker.warnings
    fixes_applied,  \* PreCommitChecker.fixes_applied
    i,              \* loop index of run_all_checks (enumerate(checks, 1))
    section,        \* config["checks"][<key of check i>], held from the evaluation
                    \*   of check i while a fix and a re-evaluation can follow
    env,            \* what check i sees of the machine and the working tree,
                    \*   held like section
    result,         \* the local variable result of run_all_checks
    all_passed,     \* the local variable all_passed of run_all_checks
    success,        \* the value run_all_checks returned
    exc,            \* the exception that escaped run_all_checks, or "none"
    exit_code,      \* the argument of sys.exit, -1 while the process runs
    evalLog,        \* history: the names of the checks evaluated, in order
    fixLog,         \* history: the fixers invoked and what each returned
    absent,         \* history: the required tools the last evaluation found missing
    said,           \* history: what _confirm returned during this iteration
    twice,          \* two runs of the program one after the other on one tree
    db,             \* the tables of accounts.User and accounts.UserProfile
    failedLog,      \* history: the checks whose final evaluation failed, in order
    summaries,      \* history: how often _print_summary ran
    expired,        \* history: a command of the latest evaluation timed out
    heard,          \* history: the kinds of line read at the prompts of this
                    \*   loop iteration, of "yes", "no", "eof"
    git             \* the .git directory as scripts/install-hook.py sees it:
                    \*   hooks/pre-commit, hooks/pre-commit.backup, and the
                    \*   history of the calls made and of the last commit

runVars == <<pc, args, config, strict_mode, auto_fix, interactive, errors,
             warnings, fixes_applied, i, section, env, result, all_passed,
             success, exc, exit_code, evalLog, fixLog, failedLog, summaries, expired,
             heard, absent, said>>

vars == <<pc, args, config, strict_mode, auto_fix, interactive, errors,
          warnings, fixes_applied, i, section, env, result, all_passed,
          success, exc, exit_code, evalLog, fixLog, failedLog, summaries, expired,
          heard, absent, said, twice, db, git>>

---------------------------------------------------------------------------
(* Bounds of the model *)

\* the longest forbidden_files list a configuration file gives
MaxForbidden == 2

---------------------------------------------------------------------------
(* The check table of run_all_checks *)

NoFix == "None"

checks == << [name |-> "Linter",   key |-> "linter",   fix_func |-> "fix_linter"],
             [name |-> "Tests",    key |-> "tests",    fix_func |-> NoFix],
             [name |-> "Django",   key |-> "django",   fix_func |-> NoFix],
             [name |-> "Sécurité", key |-> "security", fix_func |-> NoFix],
             [name |-> "Fichiers", key |-> "files",    fix_func |-> NoFix],
             [name |-> "Git",      key |-> "git",      fix_func |-> NoFix] >>

CheckNames == {checks[k].name : k \in DOMAIN checks}

---------------------------------------------------------------------------
(* CheckResult *)

CheckResult(name, passed, message, can_fix, details) ==
    [name |-> name, passed |-> passed, message |-> message,
     can_fix |-> can_fix, details |-> details]

NoResult == CheckResult("", TRUE, "", FALSE, <<>>)

---------------------------------------------------------------------------
(* _run_command: what the caller gets for each behaviour of the child      *)
(* process.  "expired" is subprocess.TimeoutExpired, "oserror" any other   *)
(* exception of subprocess.run (the executable is missing).                *)

RunCommand(behaviour) ==
    CASE behaviour = "exit0"   -> [returncode |-> 0,  expired |-> FALSE]
      [] behaviour = "exitN"   -> [returncode |-> 1,  expired |-> FALSE]
      [] behaviour = "expired" -> [returncode |-> -1, expired |-> TRUE]
      [] behaviour = "oserror" -> [returncode |-> -1, expired |-> FALSE]

\* a command that exits 0 exactly when fact holds, unless it runs out of time
Decides(fact) == {RunCommand(b) : b \in {IF fact THEN "exit0" ELSE "exitN", "expired"}}

\* a command whose exit status the model leaves open
AnyRun == {RunCommand(b) : b \in {"exit0", "exitN", "expired"}}

---------------------------------------------------------------------------
(* The state an evaluation threads through its calls: the part of the      *)
(* machine it can change, the lists of the checker it appends to, and the  *)
(* record of what happened (expired: some call timed out; inputs: the      *)
(* kinds of line read at prompts; facts: pairs <<what was looked at, what  *)
(* was the case>>).                                                        *)

Enter(e, fx, ws) ==
    [installed |-> e.installed, lint |-> e.lint, baseline |-> e.baseline,
     drift |-> e.drift,
     fixes_applied |-> fx, warnings |-> ws,
     expired |-> FALSE, inputs |-> {}, said |-> {}, facts |-> {}]

Ran(st, r) == [st EXCEPT !.expired = @ \/ r.expired]

Read(st, c) ==
    [st EXCEPT !.said = @ \cup {c.value},
               !.inputs = IF c.input = "none" THEN @ ELSE @ \cup {c.input}]

Fact(st, f) == [st EXCEPT !.facts = @ \cup f]

Return(st, r) == [st |-> st, raised |-> "none", result |-> r]

Raise(st, e) == [st |-> st, raised |-> e, result |-> NoResult]

\* repr of the KeyError a subscript raises for a key the dictionary lacks
KeyError(key) ==
    CASE key = "linter"          -> "KeyError('linter')"
      [] key = "tests"           -> "KeyError('tests')"
      [] key = "django"          -> "KeyError('django')"
      [] key = "security"        -> "KeyError('security')"
      [] key = "files"           -> "KeyError('files')"
      [] key = "git"             -> "KeyError('git')"
      [] key = "exclude"         -> "KeyError('exclude')"
      [] key = "max_line_length" -> "KeyError('max_line_length')"
      [] key = "tools"           -> "KeyError('tools')"
      [] key = "forbidden_files" -> "KeyError('forbidden_files')"

---------------------------------------------------------------------------
(* _confirm *)

\* the lines an operator types at a prompt, and what .strip().lower() makes of them
Lines == {"", "o", "Oui", " y ", "YES", "n", "non", "no"}

StripLower(line) ==
    CASE line = "Oui" -> "oui"
      [] line = " y " -> "y"
      [] line = "YES" -> "yes"
      [] OTHER        -> line

\* _confirm without lines 149-150: the prompt is read in every mode
Confirm_ReadsInput(isInteractive, autoFix) ==
    {[value |-> StripLower(l) \in {"", "o", "oui", "y", "yes"},
      input |-> IF StripLower(l) \in {"", "o", "oui", "y", "yes"}
                THEN "yes" ELSE "no"] : l \in Lines}
    \cup {[value |-> FALSE, input |-> "eof"]}

Confirm(isInteractive, autoFix) ==
    IF ~isInteractive
    THEN {[value |-> autoFix, input |-> "none"]}
    ELSE {[value |-> StripLower(l) \in {"", "o", "oui", "y", "yes"},
           input |-> IF StripLower(l) \in {"", "o", "oui", "y", "yes"}
                     THEN "yes" ELSE "no"] : l \in Lines}
         \cup {[value |-> FALSE, input |-> "eof"]}   \* EOFError, KeyboardInterrupt

---------------------------------------------------------------------------
(* check_tool_installed, install_tool *)

CheckToolInstalled(st, tool) ==
    UNION { IF w.returncode # 0
            THEN {[st |-> Ran(Ran(st, w), p), value |-> p.returncode = 0]
                    : p \in Decides(tool \in st.installed)}      \* pip show
            ELSE {[st |-> Ran(st, w), value |-> TRUE]}
          : w \in Decides(tool \in st.installed) }               \* which / where

\* install_tool listing the tool it installed among the corrections applied
InstallTool_RecordsInstall(self, st, tool) ==
    UNION { IF c.value
            THEN {[st |-> IF r.returncode = 0
                          THEN [Ran(Read(st, c), r)
                                  EXCEPT !.installed = @ \cup {tool},
                                         !.fixes_applied = Append(@, tool)]
                          ELSE Ran(Read(st, c), r),
                   value |-> r.returncode = 0] : r \in AnyRun}
            ELSE {[st |-> Read(st, c), value |-> FALSE]}
          : c \in Confirm(self.interactive, self.auto_fix) }

InstallTool(self, st, tool) ==
    UNION { IF c.value
            THEN {[st |-> IF r.returncode = 0
                          THEN [Ran(Read(st, c), r) EXCEPT !.installed = @ \cup {tool}]
                          ELSE Ran(Read(st, c), r),
                   value |-> r.returncode = 0] : r \in AnyRun}    \* pip install
            ELSE {[st |-> Read(st, c), value |-> FALSE]}
          : c \in Confirm(self.interactive, self.auto_fix) }

---------------------------------------------------------------------------
(* check_linter, fix_linter *)

\* lines 203-238: the flake8 run and what follows it
LinterRun(sec, st0) ==
    IF "exclude" \notin sec.keys THEN {Raise(st0, KeyError("exclude"))}
    ELSE IF "max_line_length" \notin sec.keys
    THEN {Raise(st0, KeyError("max_line_length"))}
    ELSE UNION {
        IF f.returncode = 0
        THEN {Return(Ran(st0, f),
                     CheckResult("Linter", TRUE, "Aucune erreur détectée", FALSE, <<>>))}
        ELSE {Return(b.st,
                     CheckResult("Linter", FALSE, "erreurs de style", b.value,
                                 <<"erreur(s) de style détectée(s)", "Exemples d'erreurs :">>))
                : b \in CheckToolInstalled(Ran(st0, f), "black")}
      : f \in Decides(~st0.lint) }                               \* flake8

CheckLinter(self, sec, st0) ==
    IF ~sec.entry THEN {Raise(st0, KeyError("linter"))}
    ELSE IF ~sec.enabled
    THEN {Return(st0, CheckResult("Linter", TRUE, "Désactivé", FALSE, <<>>))}
    ELSE UNION {
        IF ~t.value
        THEN UNION { IF ~n.value
                     THEN {Return(Fact(n.st, {<<"flake8", "absent">>}),
                                  CheckResult("Linter", FALSE,
                                              "Flake8 non installé", FALSE, <<>>))}
                     ELSE LinterRun(sec, n.st)
                   : n \in InstallTool(self, t.st, "flake8") }
        ELSE LinterRun(sec, t.st)
      : t \in CheckToolInstalled(st0, "flake8") }

\* what a formatter that exited 0 leaves of the style errors: all or none of them
Reformatted(st) == {st, [st EXCEPT !.lint = FALSE]}

\* one sub-step of fix_linter: tool is black or isort, fixed the flag so far
FixStep(st0, fixed, tool) ==
    UNION {
        IF t.value
        THEN UNION { IF r.returncode = 0
                     THEN {[st |-> Fact(s, {<<tool, "formatted">>}), value |-> TRUE]
                             : s \in Reformatted(Ran(t.st, r))}
                     ELSE {[st |-> Fact(Ran(t.st, r), {<<tool, "failed">>}),
                            value |-> fixed]}
                   : r \in AnyRun }
        ELSE {[st |-> Fact(t.st, {<<tool, "unavailable">>}), value |-> fixed]}
      : t \in CheckToolInstalled(st0, tool) }

\* fix_linter returning True only when both Black and isort exited 0
FixLinter_NeedsBoth(st0) ==
    { [st |-> f.st,
       value |-> {<<"black", "formatted">>, <<"isort", "formatted">>} \subseteq f.st.facts]
      : f \in UNION { FixStep(b.st, b.value, "isort")
                       : b \in FixStep(st0, FALSE, "black") } }

FixLinter(st0) ==
    UNION { FixStep(b.st, b.value, "isort") : b \in FixStep(st0, FALSE, "black") }

---------------------------------------------------------------------------
(* check_tests *)

CheckTests(self, sec, st0) ==
    IF ~sec.entry THEN {Raise(st0, KeyError("tests"))}
    ELSE IF ~sec.enabled
    THEN {Return(st0, CheckResult("Tests", TRUE, "Désactivés", FALSE, <<>>))}
    ELSE { IF r.returncode = 0
           THEN Return(Ran(st0, r),
                       CheckResult("Tests", TRUE, "Tous les tests passent", FALSE, <<>>))
           ELSE Return(Ran(st0, r),
                       CheckResult("Tests", FALSE, "Certains tests ont échoué", FALSE, <<>>))
         : r \in AnyRun }                                        \* manage.py test

---------------------------------------------------------------------------
(* check_django *)

\* what a makemigrations that exited 0 leaves in the tree: the migrations
\* are there, and the generated modules are Python files that "flake8 ."
\* reads unless the exclude list of the configuration covers them
Generated(st) == {[st EXCEPT !.drift = FALSE],
                  [st EXCEPT !.drift = FALSE, !.lint = TRUE]}

\* lines 333-352: migration drift
DjangoMigrations(self, sec, st0) ==
    IF ~sec.check_migrations
    THEN {Return(st0, CheckResult("Django", TRUE, "Configuration Django OK", FALSE, <<>>))}
    ELSE UNION {
        LET missing == CheckResult("Django", FALSE, "Migrations manquantes", TRUE,
                                   <<"Exécutez: python manage.py makemigrations">>)
            st1 == Fact(Ran(st0, d), IF d.returncode # 0
                                     THEN {<<"makemigrations --check", "drift">>} ELSE {})
        IN  IF d.returncode = 0
            THEN {Return(st1, CheckResult("Django", TRUE, "Configuration Django OK",
                                          FALSE, <<>>))}
            ELSE IF ~sec.auto_migrate
            THEN {Return(st1, missing)}
            ELSE UNION {
                IF ~c.value
                THEN {Return(Read(st1, c), missing)}
                ELSE UNION {
                       IF m.returncode = 0
                       THEN { Return([Fact(g, {<<"makemigrations", "created">>})
                                        EXCEPT !.fixes_applied = Append(@, "Migrations créées")],
                                     CheckResult("Django", TRUE,
                                                 "Configuration OK, migrations créées",
                                                 FALSE, <<>>))
                              : g \in Generated(Ran(Read(st1, c), m)) }
                       ELSE {Return(Fact(Ran(Read(st1, c), m),
                                         {<<"makemigrations", "failed">>}), missing)}
                     : m \in AnyRun }                            \* makemigrations
              : c \in Confirm(self.interactive, self.auto_fix) }
      : d \in Decides(~st0.drift) }                              \* makemigrations --check

\* lines 321-331: the deploy check
\* the deploy check going on to the migrations whatever "check --deploy" said
DjangoDeploy_NotGating(self, sec, st0) ==
    IF ~sec.check_deploy
    THEN DjangoMigrations(self, sec, st0)
    ELSE UNION {
        DjangoMigrations(self, sec,
                         Fact(Ran(st0, r), {<<"check --deploy",
                                              IF r.returncode # 0 THEN "failed" ELSE "ok">>}))
      : r \in AnyRun }

DjangoDeploy(self, sec, st0) ==
    IF ~sec.check_deploy
    THEN DjangoMigrations(self, sec, st0)
    ELSE UNION {
        IF r.returncode # 0
        THEN {Return(Fact(Ran(st0, r), {<<"check --deploy", "failed">>}),
                     CheckResult("Django", FALSE, "Problèmes de configuration production",
                                 FALSE, <<>>))}
        ELSE DjangoMigrations(self, sec, Fact(Ran(st0, r), {<<"check --deploy", "ok">>}))
      : r \in AnyRun }                                           \* check --deploy

CheckDjango(self, sec, st0) ==
    IF ~sec.entry THEN {Raise(st0, KeyError("django"))}
    ELSE IF ~sec.enabled
    THEN {Return(st0, CheckResult("Django", TRUE, "Désactivé", FALSE, <<>>))}
    ELSE UNION {
        IF r.returncode # 0
        THEN {Return(Fact(Ran(st0, r), {<<"check", "failed">>}),
                     CheckResult("Django", FALSE, "Erreurs dans la configuration",
                                 FALSE, <<"stderr or stdout">>))}
        ELSE DjangoDeploy(self, sec, Fact(Ran(st0, r), {<<"check", "ok">>}))
      : r \in AnyRun }                                           \* manage.py check

---------------------------------------------------------------------------
(* check_security *)

\* a sub-scan result tuple of check_security: (name, ok, message, *extra)
SubScan(name, ok, msg, extra) == [name |-> name, ok |-> ok, msg |-> msg, extra |-> extra]

\* lines 363-401: one configured scanner (bandit or safety); results so far in rs
SecurityTool(self, sec, st0, rs, tool, failed, passed) ==
    IF tool \notin sec.tools
    THEN {[st |-> st0, results |-> rs]}
    ELSE UNION {
        UNION {
            UNION {
                IF ~t2.value
                THEN {[st |-> Fact(t2.st, {<<tool, "absent">>}), results |-> rs]}
                ELSE { [st |-> Fact(Ran(t2.st, r), {<<tool, IF r.returncode # 0
                                                           THEN "failed" ELSE "passed">>}),
                        results |-> Append(rs, IF r.returncode # 0 THEN failed ELSE passed)]
                     : r \in AnyRun }                            \* the scanner
              : t2 \in CheckToolInstalled(n.st, tool) }
          : n \in IF t1.value THEN {t1} ELSE InstallTool(self, t1.st, tool) }
      : t1 \in CheckToolInstalled(st0, tool) }

\* detect-secrets is started without a probe: it may be missing
DetectSecrets == AnyRun \cup {RunCommand("oserror")}

\* lines 408-411: the baseline after a creation attempt that ended as r
BaselineAfter(st, r) ==
    IF r.returncode = 0 THEN {[st EXCEPT !.baseline = TRUE]} ELSE {st}

\* secret detection without the test of line 413: the scan runs whether or
\* not the baseline is there after the creation attempt
SecuritySecrets_ScansAnyway(sec, st0, rs) ==
    IF ~sec.check_secrets
    THEN {[st |-> st0, results |-> rs]}
    ELSE UNION {
            UNION {
                { [st |-> Fact(Ran(s1, r), {<<"Secrets", IF r.returncode # 0 \/ mention
                                                        THEN "failed" ELSE "passed">>}),
                   results |-> Append(rs,
                       IF r.returncode # 0 \/ mention
                       THEN SubScan("Secrets", FALSE, "Secrets potentiels détectés",
                                    <<"Vérifiez le fichier .secrets.baseline">>)
                       ELSE SubScan("Secrets", TRUE, "Aucun secret détecté", <<>>))]
                  : mention \in IF r.returncode = 0 THEN BOOLEAN ELSE {FALSE} }
              : r \in DetectSecrets }
      : s1 \in IF st0.baseline
               THEN {st0}
               ELSE UNION { BaselineAfter(Fact(Ran(st0, c), {<<"baseline", "attempted">>}), c)
                            : c \in DetectSecrets } }

\* lines 403-422: secret detection
SecuritySecrets(sec, st0, rs) ==
    IF ~sec.check_secrets
    THEN {[st |-> st0, results |-> rs]}
    ELSE UNION {
        IF ~s1.baseline
        THEN {[st |-> Fact(s1, {<<"Secrets", "skipped">>}), results |-> rs]}
        ELSE UNION {
                { [st |-> Fact(Ran(s1, r), {<<"Secrets", IF r.returncode # 0 \/ mention
                                                        THEN "failed" ELSE "passed">>}),
                   results |-> Append(rs,
                       IF r.returncode # 0 \/ mention
                       THEN SubScan("Secrets", FALSE, "Secrets potentiels détectés",
                                    <<"Vérifiez le fichier .secrets.baseline">>)
                       ELSE SubScan("Secrets", TRUE, "Aucun secret détecté", <<>>))]
                  : mention \in IF r.returncode = 0 THEN BOOLEAN ELSE {FALSE} }
              : r \in DetectSecrets }                        \* the scan
      : s1 \in IF st0.baseline
               THEN {st0}
               ELSE UNION { BaselineAfter(Fact(Ran(st0, c), {<<"baseline", "attempted">>}), c)
                            : c \in DetectSecrets } }

\* _check_dangerous_patterns: the matches found in the tree, at most 10 of them
DangerousPatterns == { <<>>, <<"settings.py: DEBUG = True (vérifiez que c'est intentionnel)">>,
                       <<"views.py: Utilisation d'eval() (dangereux)",
                         "settings.py: SECRET_KEY en dur dans le code">> }

\* lines 432-444: the aggregation
\* f"{name}: {msg}"
DetailLine(r) ==
    CASE r.name = "Bandit"   -> "Bandit: stdout or stderr"
      [] r.name = "Safety"   -> "Safety: Vulnérabilités dans les dépendances"
      [] r.name = "Secrets"  -> "Secrets: Secrets potentiels détectés"
      [] r.name = "Patterns" -> "Patterns: Patterns dangereux détectés"

RECURSIVE SecurityDetails(_)
SecurityDetails(failed) ==
    IF failed = <<>> THEN <<>>
    ELSE <<DetailLine(Head(failed))>> \o Head(failed).extra \o SecurityDetails(Tail(failed))

\* the aggregation failing only when every sub-scan that ran has failed
SecurityAggregate_AllMustFail(st, rs) ==
    LET failed == SelectSeq(rs, LAMBDA r : ~r.ok)
    IN  IF failed # <<>> /\ Len(failed) = Len(rs)
        THEN Return(st, CheckResult("Sécurité", FALSE, "Problèmes de sécurité détectés",
                                    FALSE, SecurityDetails(failed)))
        ELSE Return(st, CheckResult("Sécurité", TRUE, "Aucun problème de sécurité détecté",
                                    FALSE, <<>>))

SecurityAggregate(st, rs) ==
    LET failed == SelectSeq(rs, LAMBDA r : ~r.ok)
    IN  IF failed # <<>>
        THEN Return(st, CheckResult("Sécurité", FALSE, "Problèmes de sécurité détectés",
                                    FALSE, SecurityDetails(failed)))
        ELSE Return(st, CheckResult("Sécurité", TRUE, "Aucun problème de sécurité détecté",
                                    FALSE, <<>>))

CheckSecurity(self, sec, st0) ==
    IF ~sec.entry THEN {Raise(st0, KeyError("security"))}
    ELSE IF ~sec.enabled
    THEN {Return(st0, CheckResult("Sécurité", TRUE, "Désactivée", FALSE, <<>>))}
    ELSE IF "tools" \notin sec.keys THEN {Raise(st0, KeyError("tools"))}
    ELSE UNION { UNION { UNION {
            { SecurityAggregate(
                  Fact(c.st, {<<"Patterns", IF d # <<>> THEN "failed" ELSE "passed">>}),
                  Append(c.results,
                         IF d # <<>>
                         THEN SubScan("Patterns", FALSE, "Patterns dangereux détectés", d)
                         ELSE SubScan("Patterns", TRUE, "Aucun pattern dangereux", <<>>)))
              : d \in DangerousPatterns }
          : c \in SecuritySecrets(sec, b.st, b.results) }
          : b \in SecurityTool(self, sec, a.st, a.results, "safety",
                     SubScan("Safety", FALSE, "Vulnérabilités dans les dépendances",
                             <<"Vulnérabilités détectées">>),
                     SubScan("Safety", TRUE, "Aucune vulnérabilité détectée", <<>>)) }
          : a \in SecurityTool(self, sec, st0, <<>>, "bandit",
                     SubScan("Bandit", FALSE, "stdout or stderr", <<>>),
                     SubScan("Bandit", TRUE, "Aucune vulnérabilité détectée", <<>>)) }

---------------------------------------------------------------------------
(* check_files *)

\* f"{file} (suivi par git - DANGER!)" and f"{file} (non suivi - OK)"
FoundLine(file, tracked) ==
    CASE file = ".env"       /\ tracked  -> ".env (suivi par git - DANGER!)"
      [] file = ".env"       /\ ~tracked -> ".env (non suivi - OK)"
      [] file = "db.sqlite3" /\ tracked  -> "db.sqlite3 (suivi par git - DANGER!)"
      [] file = "db.sqlite3" /\ ~tracked -> "db.sqlite3 (non suivi - OK)"

\* "DANGER" in f
HasDanger(line) == line \in {".env (suivi par git - DANGER!)",
                             "db.sqlite3 (suivi par git - DANGER!)"}

\* what the tree holds of one file: absent, present and untracked, present and tracked
FileStates == {"absent", "untracked", "tracked"}

\* lines 488-495: the loop over forbidden_files, from position k, found so far
RECURSIVE ForbiddenLoop(_, _, _, _)
ForbiddenLoop(files, k, st0, found) ==
    IF k > Len(files)
    THEN {[st |-> st0, found |-> found]}
    ELSE UNION {
        IF f = "absent"
        THEN ForbiddenLoop(files, k + 1, Fact(st0, {<<files[k], f>>}), found)
        ELSE UNION {
            ForbiddenLoop(files, k + 1, Fact(Ran(st0, r), {<<files[k], f>>}),
                          Append(found, FoundLine(files[k], r.returncode = 0)))
          : r \in Decides(f = "tracked") }                       \* git ls-files
      : f \in IF \E g \in FileStates : <<files[k], g>> \in st0.facts
              THEN {g \in FileStates : <<files[k], g>> \in st0.facts}   \* listed twice
              ELSE FileStates }

\* the lines of .gitignore the model draws from, and item in line for the required items
GitignoreLines == {".env", ".env.example", "db.sqlite3", "__pycache__/", "*.pyc"}

required == <<".env", "db.sqlite3", "__pycache__/", "*.pyc">>

InLine(item, line) == item = line \/ (item = ".env" /\ line = ".env.example")

\* item in gitignore_content
InContent(item, content) == \E line \in content : InLine(item, line)

\* f"Manquant: {', '.join(missing)}" is kept as the sequence of the missing items
Manquant(missing) == <<"Manquant:">> \o missing

\* lines 506-522: the .gitignore check
FilesGitignore(sec, st0) ==
    LET ok == CheckResult("Fichiers", TRUE, "Aucun fichier sensible détecté", FALSE, <<>>)
    IN  IF ~sec.check_gitignore
        THEN {Return(st0, ok)}
        ELSE {Return(Fact(st0, {<<".gitignore", "absent">>}),
                     CheckResult("Fichiers", FALSE, "Fichier .gitignore manquant",
                                 FALSE, <<>>))}
             \cup
             { LET missing == SelectSeq(required, LAMBDA item : ~InContent(item, content))
                   st1 == Fact(st0, {<<".gitignore", line>> : line \in content}
                                     \cup {<<".gitignore", "present">>})
               IN  IF missing # <<>>
                   THEN Return(st1, CheckResult("Fichiers", FALSE, ".gitignore incomplet",
                                                FALSE, Manquant(missing)))
                   ELSE Return(st1, ok)
               : content \in SUBSET GitignoreLines }

\* check_files with every found file taken as dangerous (line 498 without
\* the test of "DANGER")
CheckFiles_UntrackedFails(self, sec, st0) ==
    IF ~sec.entry THEN {Raise(st0, KeyError("files"))}
    ELSE IF ~sec.enabled
    THEN {Return(st0, CheckResult("Fichiers", TRUE, "Désactivé", FALSE, <<>>))}
    ELSE IF "forbidden_files" \notin sec.keys
    THEN {Raise(st0, KeyError("forbidden_files"))}
    ELSE UNION {
        LET dangerous == l.found
        IN  IF dangerous # <<>>
            THEN {Return(l.st, CheckResult("Fichiers", FALSE, "Fichiers sensibles commités!",
                                           FALSE, dangerous))}
            ELSE FilesGitignore(sec, l.st)
      : l \in ForbiddenLoop(sec.forbidden_files, 1, st0, <<>>) }

CheckFiles(self, sec, st0) ==
    IF ~sec.entry THEN {Raise(st0, KeyError("files"))}
    ELSE IF ~sec.enabled
    THEN {Return(st0, CheckResult("Fichiers", TRUE, "Désactivé", FALSE, <<>>))}
    ELSE IF "forbidden_files" \notin sec.keys
    THEN {Raise(st0, KeyError("forbidden_files"))}
    ELSE UNION {
        LET dangerous == SelectSeq(l.found, HasDanger)
        IN  IF dangerous # <<>>
            THEN {Return(l.st, CheckResult("Fichiers", FALSE, "Fichiers sensibles commités!",
                                           FALSE, dangerous))}
            ELSE FilesGitignore(sec, l.st)
      : l \in ForbiddenLoop(sec.forbidden_files, 1, st0, <<>>) }

---------------------------------------------------------------------------
(* check_git *)

\* what git diff --cached --name-only prints when it exits 0
StagedOutputs == {<<>>, <<"a.py">>, <<"a.py", "b.py">>}

\* what git log -1 --pretty=%B prints when it exits 0, stripped
LastMessages == {"", "feat: add login", "FIX(auth): typo", "update stuff",
                 "wip: try", "feat:add", "docs:"}

\* the part of a message the pattern's type alternative has to match, lowered
\* (re.IGNORECASE), and whether "(scope)?: description" follows it
MessageType(m) ==
    CASE m = "feat: add login" -> "feat"
      [] m = "FIX(auth): typo" -> "fix"
      [] m = "wip: try"        -> "wip"
      [] m = "feat:add"        -> "feat"
      [] m = "docs:"           -> "docs"
      [] OTHER                 -> "update stuff"

HasDescription(m) == m \in {"feat: add login", "FIX(auth): typo", "wip: try"}

\* re.match(pattern, last_message, re.IGNORECASE)
Matches(allowed_types, m) == MessageType(m) \in allowed_types /\ HasDescription(m)

ConventionWarning == "Le dernier commit ne suit pas la convention / Format attendu: type: description"

\* lines 543-564 with the mismatch returned as a failed result
GitConvention_MismatchFails(sec, st0) ==
    LET ok == CheckResult("Git", TRUE, "Git OK", FALSE, <<>>)
    IN  IF ~sec.conventional_commits
        THEN {Return(st0, ok)}
        ELSE UNION {
            { LET last_message == IF r.returncode = 0 THEN m ELSE ""
                  st1 == Fact(Ran(st0, r), {<<"last_message", last_message>>})
              IN  IF last_message # "" /\ ~Matches(sec.allowed_types, last_message)
                  THEN Return(st1, CheckResult("Git", FALSE, ConventionWarning, FALSE, <<>>))
                  ELSE Return(st1, ok)
              : m \in IF r.returncode = 0 THEN LastMessages ELSE {""} }
          : r \in AnyRun }                                       \* git log

\* lines 543-564: conventional commits
GitConvention(sec, st0) ==
    LET ok == CheckResult("Git", TRUE, "Git OK", FALSE, <<>>)
    IN  IF ~sec.conventional_commits
        THEN {Return(st0, ok)}
        ELSE UNION {
            { LET last_message == IF r.returncode = 0 THEN m ELSE ""
                  st1 == Fact(Ran(st0, r), {<<"last_message", last_message>>})
              IN  IF last_message # "" /\ ~Matches(sec.allowed_types, last_message)
                  THEN Return([st1 EXCEPT !.warnings = Append(@, ConventionWarning)], ok)
                  ELSE Return(st1, ok)
              : m \in IF r.returncode = 0 THEN LastMessages ELSE {""} }
          : r \in AnyRun }                                       \* git log

CheckGit(self, sec, st0) ==
    IF ~sec.entry THEN {Raise(st0, KeyError("git"))}
    ELSE IF ~sec.enabled
    THEN {Return(st0, CheckResult("Git", TRUE, "Désactivé", FALSE, <<>>))}
    ELSE IF ~sec.check_staged_files
    THEN GitConvention(sec, st0)
    ELSE UNION { UNION {
            IF staged_files = <<>>
            THEN {Return(Ran(st0, r),
                         CheckResult("Git", FALSE, "Aucun fichier staged", FALSE,
                                     <<"Utilisez 'git add' avant de committer">>))}
            ELSE GitConvention(sec, Ran(st0, r))
          : staged_files \in IF r.returncode = 0 THEN StagedOutputs ELSE {<<>>} }
      : r \in AnyRun }                                           \* git diff --cached

---------------------------------------------------------------------------
(* The configuration.  A section holds the value of every key a check      *)
(* reads with .get (its default where the key is absent); keys lists the   *)
(* keys read with [] that are present; entry is whether                    *)
(* config["checks"][key]["enabled"] exists at all.                         *)

DefaultTypes == {"feat", "fix", "docs", "style", "refactor", "test", "chore"}

\* _default_config: every section is {"enabled": True}
DefaultSection ==
    [entry |-> TRUE, enabled |-> TRUE, keys |-> {},
     check_deploy |-> FALSE, check_migrations |-> TRUE, auto_migrate |-> FALSE,
     tools |-> {}, check_secrets |-> TRUE,
     forbidden_files |-> <<>>, check_gitignore |-> TRUE,
     check_staged_files |-> TRUE, conventional_commits |-> TRUE,
     allowed_types |-> DefaultTypes]

RECURSIVE SeqsUpTo(_, _)
SeqsUpTo(S, n) ==
    IF n = 0 THEN {<<>>}
    ELSE SeqsUpTo(S, n - 1)
         \cup {Append(q, x) : q \in {r \in SeqsUpTo(S, n - 1) : Len(r) = n - 1}, x \in S}

\* the sections a well-formed configuration file can give the check with this key
FileSections(key) ==
    {[DefaultSection EXCEPT !.entry = FALSE], [DefaultSection EXCEPT !.enabled = FALSE]}
    \cup
    CASE key = "linter" ->
           {[DefaultSection EXCEPT !.keys = k] : k \in SUBSET {"exclude", "max_line_length"}}
      [] key = "tests" -> {DefaultSection}
      [] key = "django" ->
           {[DefaultSection EXCEPT !.check_deploy = d, !.check_migrations = m,
                                   !.auto_migrate = a] : d, m, a \in BOOLEAN}
      [] key = "security" ->
           {DefaultSection} \cup
           {[DefaultSection EXCEPT !.keys = {"tools"}, !.tools = t, !.check_secrets = c]
              : t \in SUBSET {"bandit", "safety"}, c \in BOOLEAN}
      [] key = "files" ->
           {DefaultSection} \cup
           {[DefaultSection EXCEPT !.keys = {"forbidden_files"}, !.forbidden_files = f,
                                   !.check_gitignore = g]
              : f \in SeqsUpTo({".env", "db.sqlite3"}, MaxForbidden), g \in BOOLEAN}
      [] key = "git" ->
           {[DefaultSection EXCEPT !.check_staged_files = f, !.conventional_commits = c,
                                   !.allowed_types = t]
              : f, c \in BOOLEAN, t \in {DefaultTypes, {"feat", "fix", "docs"}}}

Sections(kind, key) == IF kind = "default" THEN {DefaultSection} ELSE FileSections(key)

\* a _default_config whose strict_mode is off
ConfigFiles_LaxDefaults ==
    {[kind |-> "missing", strict_mode |-> FALSE, auto_fix |-> TRUE, interactive |-> TRUE],
     [kind |-> "malformed", strict_mode |-> TRUE, auto_fix |-> TRUE, interactive |-> TRUE]}
    \cup [kind : {"json"}, strict_mode : BOOLEAN, auto_fix : BOOLEAN, interactive : BOOLEAN]

\* the file at config_path: missing, not JSON, or JSON with these top-level values
\* (.get(key, True) where the key is absent)
ConfigFiles ==
    {[kind |-> "missing", strict_mode |-> TRUE, auto_fix |-> TRUE, interactive |-> TRUE],
     [kind |-> "malformed", strict_mode |-> TRUE, auto_fix |-> TRUE, interactive |-> TRUE]}
    \cup [kind : {"json"}, strict_mode : BOOLEAN, auto_fix : BOOLEAN, interactive : BOOLEAN]

\* the command lines of the model
ArgSets == {[fix |-> FALSE, yes |-> FALSE, from_hook |-> FALSE, only |-> <<>>],
            [fix |-> TRUE,  yes |-> FALSE, from_hook |-> FALSE, only |-> <<>>],
            [fix |-> FALSE, yes |-> TRUE,  from_hook |-> FALSE, only |-> <<>>],
            [fix |-> FALSE, yes |-> FALSE, from_hook |-> TRUE,  only |-> <<>>],
            [fix |-> FALSE, yes |-> FALSE, from_hook |-> FALSE,
             only |-> <<"security", "tests">>]}                  \* --only=security,tests

---------------------------------------------------------------------------
(* The machine and the working tree, as far as check k looks at them *)

NoEnv == [installed |-> {}, lint |-> FALSE, baseline |-> FALSE, drift |-> FALSE]

\* facts no call of the check reads (a tool the section does not name, the
\* tree of a disabled check) are left at their NoEnv value
Envs(k, sec) ==
    IF ~(sec.entry /\ sec.enabled) THEN {NoEnv}
    ELSE CASE k = 1 ->
                {[NoEnv EXCEPT !.installed = t, !.lint = l]
                   : t \in SUBSET {"flake8", "black", "isort"}, l \in BOOLEAN}
           [] k = 3 /\ sec.check_migrations ->
                {[NoEnv EXCEPT !.drift = d] : d \in BOOLEAN}
           [] k = 4 /\ "tools" \in sec.keys ->
                {[NoEnv EXCEPT !.installed = t, !.baseline = b]
                   : t \in SUBSET sec.tools,
                     b \in IF sec.check_secrets THEN BOOLEAN ELSE {FALSE}}
           [] OTHER -> {NoEnv}

\* check_func(): the check of row k of the table
CheckFunc(k, self, sec, st0) ==
    CASE k = 1 -> CheckLinter(self, sec, st0)
      [] k = 2 -> CheckTests(self, sec, st0)
      [] k = 3 -> CheckDjango(self, sec, st0)
      [] k = 4 -> CheckSecurity(self, sec, st0)
      [] k = 5 -> CheckFiles(self, sec, st0)
      [] k = 6 -> CheckGit(self, sec, st0)

\* whether check k starts an external command at all with this section
CallsExternal(k, sec) ==
    /\ sec.entry /\ sec.enabled
    /\ CASE k = 4 -> "tools" \in sec.keys /\ (sec.tools # {} \/ sec.check_secrets)
         [] k = 5 -> "forbidden_files" \in sec.keys /\ sec.forbidden_files # <<>>
         [] k = 6 -> sec.check_staged_files \/ sec.conventional_commits
         [] OTHER -> TRUE

---------------------------------------------------------------------------
(* The process: main, __init__, run_all_checks *)

Self == [interactive |-> interactive, auto_fix |-> auto_fix]

EnvOf(st) == [installed |-> st.installed, lint |-> st.lint, baseline |-> st.baseline,
              drift |-> st.drift]

\* line 604 without "and self.auto_fix"
OfferFix_IgnoresAutoFix(r, fix_func, autoFix) == r.can_fix /\ fix_func # NoFix

\* the tools a check requires that it found missing after the install attempt
\* and that are missing indeed (a probe that timed out finds an installed tool
\* missing too)
Absent(st) == ({f[1] : f \in {g \in st.facts : g[2] = "absent"}}
               \cap {"flake8", "bandit", "safety"}) \ st.installed

\* line 604: result.can_fix and fix_func and self.auto_fix
OfferFix(r, fix_func, autoFix) == r.can_fix /\ fix_func # NoFix /\ autoFix

\* empty tables: no User, no UserProfile, no call made
NoRows == [users |-> <<>>, profiles |-> <<>>, made |-> <<>>, raised |-> "none"]

\* no second run
Once == [run |-> 0, at |-> 0, over |-> FALSE, tree |-> NoEnv, strict_mode |-> TRUE,
         interactive |-> TRUE, auto_migrate |-> FALSE, first |-> <<>>, second |-> <<>>]

\* no commit made yet
NoCommit == [pipeline |-> -1, hook |-> -1]

\* no repository: no .git directory, no hook, no call of the installer
NoGit == [dir |-> FALSE, os |-> "posix", hook |-> "none", backup |-> "none",
          initial |-> "none", ops |-> <<>>, commit |-> NoCommit]

\* the program before main has built the checker
Fresh ==
    /\ pc = "start"
    /\ config = [kind |-> "unread"]
    /\ strict_mode = TRUE /\ auto_fix = TRUE /\ interactive = TRUE
    /\ errors = <<>> /\ warnings = <<>> /\ fixes_applied = <<>>
    /\ i = 0 /\ section = DefaultSection /\ env = NoEnv
    /\ result = NoResult /\ all_passed = TRUE /\ success = FALSE
    /\ exc = "none" /\ exit_code = -1
    /\ evalLog = <<>> /\ fixLog = <<>> /\ failedLog = <<>> /\ summaries = 0
    /\ expired = FALSE /\ heard = {} /\ absent = {} /\ said = {}

Init == args \in ArgSets /\ Fresh /\ twice = Once /\ db = NoRows /\ git = NoGit

\* __init__ with a _load_config that lets json.JSONDecodeError pass: no sys.exit
Construct_IgnoresMalformed ==
    /\ pc = "start"
    /\ \E file \in ConfigFiles :
         IF file.kind = "malformed"
         THEN /\ config' = [kind |-> "malformed"]
              /\ pc' = "constructed" /\ UNCHANGED exit_code
              /\ UNCHANGED <<strict_mode, auto_fix, interactive>>
         ELSE /\ config' = [kind |-> IF file.kind = "missing" THEN "default" ELSE "file"]
              /\ strict_mode' = file.strict_mode
              /\ auto_fix' = file.auto_fix
              /\ interactive' = file.interactive
              /\ pc' = "constructed"
              /\ UNCHANGED exit_code
    /\ UNCHANGED <<args, errors, warnings, fixes_applied, i, section, env, result,
                   all_passed, success, exc, evalLog, fixLog, summaries,
                   expired, heard, failedLog, absent, said, twice, db, git>>

\* PreCommitChecker.__init__ with _load_config
Construct ==
    /\ pc = "start"
    /\ \E file \in ConfigFiles :
         IF file.kind = "malformed"
         THEN /\ config' = [kind |-> "malformed"]
              /\ exit_code' = 1 /\ pc' = "exited"
              /\ UNCHANGED <<strict_mode, auto_fix, interactive>>
         ELSE /\ config' = [kind |-> IF file.kind = "missing" THEN "default" ELSE "file"]
              /\ strict_mode' = file.strict_mode
              /\ auto_fix' = file.auto_fix
              /\ interactive' = file.interactive
              /\ pc' = "constructed"
              /\ UNCHANGED exit_code
    /\ UNCHANGED <<args, errors, warnings, fixes_applied, i, section, env, result,
                   all_passed, success, exc, evalLog, fixLog, summaries,
                   expired, heard, failedLog, absent, said, twice, db, git>>

\* main with line 696 as "if args.yes:": --from-hook leaves interactive alone
ApplyArgs_HookKeepsInteractive ==
    /\ pc = "constructed"
    /\ auto_fix' = IF args.fix \/ args.yes \/ args.from_hook THEN TRUE ELSE auto_fix
    /\ interactive' = IF args.yes THEN FALSE ELSE interactive
    /\ all_passed' = TRUE
    /\ pc' = "loop"
    /\ UNCHANGED <<args, config, strict_mode, errors, warnings, fixes_applied, i,
                   section, env, result, success, exc, exit_code, evalLog, fixLog,
                   summaries, expired, heard, failedLog, absent, said, twice, db, git>>

\* main, lines 693-698, and the entry of run_all_checks up to the loop
ApplyArgs ==
    /\ pc = "constructed"
    /\ auto_fix' = IF args.fix \/ args.yes \/ args.from_hook THEN TRUE ELSE auto_fix
    /\ interactive' = IF args.yes \/ args.from_hook THEN FALSE ELSE interactive
    /\ all_passed' = TRUE
    /\ pc' = "loop"
    /\ UNCHANGED <<args, config, strict_mode, errors, warnings, fixes_applied, i,
                   section, env, result, success, exc, exit_code, evalLog, fixLog,
                   summaries, expired, heard, failedLog, absent, said, twice, db, git>>

\* the for statement taking the next row of the table or the one after it
LoopNext_SkipsARow ==
    /\ pc = "loop" /\ i < Len(checks)
    /\ i' \in {i + 1, i + 2} \cap (1..Len(checks))
    /\ section' = DefaultSection /\ env' = NoEnv
    /\ result' = NoResult /\ expired' = FALSE /\ heard' = {}
    /\ absent' = {} /\ said' = {}
    /\ pc' = "check"
    /\ UNCHANGED <<args, config, strict_mode, auto_fix, interactive, errors, warnings,
                   fixes_applied, all_passed, success, exc, exit_code, evalLog, fixLog,
                   summaries, failedLog, twice, db, git>>

\* the for statement of run_all_checks takes the next row of the table.
\* result is dead here (line 588 assigns it before any read); it is cleared
\* with what was held of the previous check and the histories of the iteration.
LoopNext ==
    /\ pc = "loop" /\ i < Len(checks)
    /\ i' = i + 1
    /\ section' = DefaultSection /\ env' = NoEnv
    /\ result' = NoResult /\ expired' = FALSE /\ heard' = {}
    /\ absent' = {} /\ said' = {}
    /\ pc' = "check"
    /\ UNCHANGED <<args, config, strict_mode, auto_fix, interactive, errors, warnings,
                   fixes_applied, all_passed, success, exc, exit_code, evalLog, fixLog,
                   summaries, failedLog, twice, db, git>>

\* what run_all_checks keeps of one evaluation: the result or the exception,
\* what the check appended to self.fixes_applied and self.warnings, and, when
\* a fix is going to be offered, the section and the tree the fix and the
\* re-evaluation will look at
Kept(o, sec, fix_func, autoFix) ==
    LET offer == o.raised = "none" /\ ~o.result.passed
                 /\ OfferFix(o.result, fix_func, autoFix)
    IN  [raised |-> o.raised, result |-> o.result,
         expired |-> o.st.expired, inputs |-> o.st.inputs, said |-> o.st.said,
         absent |-> Absent(o.st),
         fixes_applied |-> o.st.fixes_applied, warnings |-> o.st.warnings,
         offer |-> offer,
         section |-> IF offer THEN sec ELSE DefaultSection,
         env |-> IF offer THEN EnvOf(o.st) ELSE NoEnv]

\* check_func() of row k for a checker with these settings: every section
\* the configuration can give the check, every machine and tree
Evaluations(k, self, kind) ==
    UNION { UNION { { Kept(o, sec, checks[k].fix_func, self.auto_fix)
                      : o \in CheckFunc(k, self, sec, Enter(e, <<>>, <<>>)) }
                    : e \in Envs(k, sec) }
            : sec \in Sections(kind, checks[k].key) }

\* the evaluations of every row, setting and kind of configuration
EvaluationTable ==
    [k \in DOMAIN checks, it \in BOOLEAN, af \in BOOLEAN, kind \in {"default", "file"}
       |-> Evaluations(k, [interactive |-> it, auto_fix |-> af], kind)]

\* lines 588-604: result = check_func() and what the loop body does with it.
\* The section of the check and the facts of the tree it looks at are the
\* inputs of the evaluation.
Evaluate ==
    /\ pc = "check"
    /\ \E o \in EvaluationTable[i, interactive, auto_fix, config.kind] :
         /\ evalLog' = Append(evalLog, checks[i].name)
         /\ expired' = o.expired
         /\ heard' = o.inputs
         /\ absent' = o.absent
         /\ said' = o.said
         /\ fixes_applied' = fixes_applied \o o.fixes_applied
         /\ warnings' = warnings \o o.warnings
         /\ IF o.raised # "none"
            THEN /\ exc' = o.raised /\ pc' = "raised"
                 /\ UNCHANGED <<result, section, env>>
            ELSE /\ result' = o.result
                 /\ UNCHANGED exc
                 /\ IF o.result.passed
                    THEN pc' = "loop" /\ UNCHANGED <<section, env>>
                    ELSE IF o.offer
                    THEN pc' = "confirm" /\ section' = o.section /\ env' = o.env
                    ELSE pc' = "policy" /\ UNCHANGED <<section, env>>
         /\ failedLog' = IF pc' = "policy" THEN Append(failedLog, checks[i].name)
                                         ELSE failedLog
    /\ UNCHANGED <<args, config, strict_mode, auto_fix, interactive, errors, i,
                   all_passed, success, exit_code, fixLog, summaries, twice, db, git>>

\* line 606 with a refusal that leaves the run as an interrupt does
ConfirmFix_RefusalAborts ==
    /\ pc = "confirm"
    /\ \E c \in Confirm(interactive, auto_fix) :
         /\ pc' = IF c.value THEN "fix" ELSE "exited"
         /\ exit_code' = IF c.value THEN exit_code ELSE 130
         /\ heard' = IF c.input = "none" THEN heard ELSE heard \cup {c.input}
         /\ said' = said \cup {c.value}
    /\ UNCHANGED <<args, config, strict_mode, auto_fix, interactive, errors, warnings,
                   fixes_applied, i, section, env, result, all_passed, success, exc,
                   evalLog, fixLog, failedLog, summaries, expired, absent, twice, db, git>>

\* line 606: self._confirm("Corriger automatiquement ?")
ConfirmFix ==
    /\ pc = "confirm"
    /\ \E c \in Confirm(interactive, auto_fix) :
         /\ pc' = IF c.value THEN "fix" ELSE "policy"
         /\ failedLog' = IF c.value THEN failedLog ELSE Append(failedLog, checks[i].name)
         /\ heard' = IF c.input = "none" THEN heard ELSE heard \cup {c.input}
         /\ said' = said \cup {c.value}
    /\ UNCHANGED <<args, config, strict_mode, auto_fix, interactive, errors, warnings,
                   fixes_applied, i, section, env, result, all_passed, success, exc,
                   exit_code, evalLog, fixLog, summaries, expired, absent, twice, db, git>>

\* line 607 without the test of what fix_func returned
Fix_RecheckWhateverReturned ==
    /\ pc = "fix"
    /\ \E f \in FixLinter(Enter(env, fixes_applied, warnings)) :
         /\ env' = EnvOf(f.st)
         /\ fixLog' = Append(fixLog, [name |-> checks[i].name, value |-> f.value])
         /\ pc' = "recheck"
    /\ UNCHANGED <<args, config, strict_mode, auto_fix, interactive, errors, warnings,
                   fixes_applied, i, section, result, all_passed, success, exc,
                   exit_code, evalLog, failedLog, summaries, expired, heard,
                   absent, said, twice, db, git>>

\* line 607: if fix_func()
Fix ==
    /\ pc = "fix"
    /\ \E f \in FixLinter(Enter(env, fixes_applied, warnings)) :
         /\ env' = EnvOf(f.st)
         /\ fixLog' = Append(fixLog, [name |-> checks[i].name, value |-> f.value])
         /\ pc' = IF f.value THEN "recheck" ELSE "policy"
         /\ failedLog' = IF f.value THEN failedLog ELSE Append(failedLog, checks[i].name)
    /\ UNCHANGED <<args, config, strict_mode, auto_fix, interactive, errors, warnings,
                   fixes_applied, i, section, result, all_passed, success, exc,
                   exit_code, evalLog, summaries, expired, heard, absent, said, twice, db, git>>

\* lines 609-616 without line 613, self.fixes_applied.append(name)
Recheck_NoRecord ==
    /\ pc = "recheck"
    /\ \E o \in CheckFunc(i, Self, section, Enter(env, fixes_applied, warnings)) :
         /\ evalLog' = Append(evalLog, checks[i].name)
         /\ expired' = o.st.expired
         /\ heard' = heard \cup o.st.inputs
         /\ absent' = Absent(o.st)
         /\ said' = said \cup o.st.said
         /\ env' = EnvOf(o.st)
         /\ warnings' = o.st.warnings
         /\ fixes_applied' = o.st.fixes_applied
         /\ IF o.raised # "none"
            THEN exc' = o.raised /\ pc' = "raised" /\ UNCHANGED result
            ELSE /\ result' = o.result
                 /\ UNCHANGED exc
                 /\ pc' = IF o.result.passed THEN "loop" ELSE "policy"
         /\ failedLog' = IF pc' = "policy" THEN Append(failedLog, checks[i].name)
                                         ELSE failedLog
    /\ UNCHANGED <<args, config, strict_mode, auto_fix, interactive, errors, i, section,
                   all_passed, success, exit_code, fixLog, summaries, twice, db, git>>

\* lines 609-616 with the append of line 613 moved out of "if result.passed"
Recheck_RecordsOnFailure ==
    /\ pc = "recheck"
    /\ \E o \in CheckFunc(i, Self, section, Enter(env, fixes_applied, warnings)) :
         /\ evalLog' = Append(evalLog, checks[i].name)
         /\ expired' = o.st.expired
         /\ heard' = heard \cup o.st.inputs
         /\ absent' = Absent(o.st)
         /\ said' = said \cup o.st.said
         /\ env' = EnvOf(o.st)
         /\ warnings' = o.st.warnings
         /\ IF o.raised # "none"
            THEN /\ exc' = o.raised /\ pc' = "raised"
                 /\ fixes_applied' = o.st.fixes_applied
                 /\ UNCHANGED result
            ELSE /\ result' = o.result
                 /\ UNCHANGED exc
                 /\ fixes_applied' = Append(o.st.fixes_applied, checks[i].name)
                 /\ pc' = IF o.result.passed THEN "loop" ELSE "policy"
         /\ failedLog' = IF pc' = "policy" THEN Append(failedLog, checks[i].name)
                                         ELSE failedLog
    /\ UNCHANGED <<args, config, strict_mode, auto_fix, interactive, errors, i, section,
                   all_passed, success, exit_code, fixLog, summaries, twice, db, git>>

\* lines 609-616 offering the fix again while the re-evaluation fails
Recheck_FixesUntilClean ==
    /\ pc = "recheck"
    /\ \E o \in CheckFunc(i, Self, section, Enter(env, fixes_applied, warnings)) :
         /\ evalLog' = Append(evalLog, checks[i].name)
         /\ expired' = o.st.expired
         /\ heard' = heard \cup o.st.inputs
         /\ absent' = Absent(o.st)
         /\ said' = said \cup o.st.said
         /\ env' = EnvOf(o.st)
         /\ warnings' = o.st.warnings
         /\ IF o.raised # "none"
            THEN /\ exc' = o.raised /\ pc' = "raised"
                 /\ fixes_applied' = o.st.fixes_applied
                 /\ UNCHANGED result
            ELSE /\ result' = o.result
                 /\ UNCHANGED exc
                 /\ IF o.result.passed
                    THEN /\ fixes_applied' = Append(o.st.fixes_applied, checks[i].name)
                         /\ pc' = "loop"                       \* continue
                    ELSE /\ fixes_applied' = o.st.fixes_applied
                         /\ pc' = IF o.result.can_fix THEN "confirm" ELSE "policy"
         /\ failedLog' = IF pc' = "policy" THEN Append(failedLog, checks[i].name)
                                         ELSE failedLog
    /\ UNCHANGED <<args, config, strict_mode, auto_fix, interactive, errors, i, section,
                   all_passed, success, exit_code, fixLog, summaries, twice, db, git>>

\* lines 609-616: the re-evaluation after a fix that returned true
Recheck ==
    /\ pc = "recheck"
    /\ \E o \in CheckFunc(i, Self, section, Enter(env, fixes_applied, warnings)) :
         /\ evalLog' = Append(evalLog, checks[i].name)
         /\ expired' = o.st.expired
         /\ heard' = heard \cup o.st.inputs
         /\ absent' = Absent(o.st)
         /\ said' = said \cup o.st.said
         /\ env' = EnvOf(o.st)
         /\ warnings' = o.st.warnings
         /\ IF o.raised # "none"
            THEN /\ exc' = o.raised /\ pc' = "raised"
                 /\ fixes_applied' = o.st.fixes_applied
                 /\ UNCHANGED result
            ELSE /\ result' = o.result
                 /\ UNCHANGED exc
                 /\ IF o.result.passed
                    THEN /\ fixes_applied' = Append(o.st.fixes_applied, checks[i].name)
                         /\ pc' = "loop"                       \* continue
                    ELSE /\ fixes_applied' = o.st.fixes_applied
                         /\ pc' = "policy"
         /\ failedLog' = IF pc' = "policy" THEN Append(failedLog, checks[i].name)
                                         ELSE failedLog
    /\ UNCHANGED <<args, config, strict_mode, auto_fix, interactive, errors, i, section,
                   all_passed, success, exit_code, fixLog, summaries, twice, db, git>>

\* f"{name}: {result.message}"
ErrorLine(name, message) == <<name, message>>

\* lines 618-626 without the strict branch
Policy_ContinuesInStrict ==
    /\ pc = "policy"
    /\ all_passed' = FALSE
    /\ errors' = Append(errors, ErrorLine(checks[i].name, result.message))
    /\ pc' = "loop"
    /\ UNCHANGED <<args, config, strict_mode, auto_fix, interactive, warnings,
                   fixes_applied, i, section, env, result, success, exc, exit_code,
                   evalLog, fixLog, failedLog, summaries, expired, heard,
                   absent, said, twice, db, git>>

\* lines 618-626 with errors = [...] in place of errors.append(...)
Policy_OverwritesErrors ==
    /\ pc = "policy"
    /\ IF strict_mode
       THEN /\ summaries' = summaries + 1
            /\ success' = FALSE
            /\ pc' = "returned"
            /\ UNCHANGED <<all_passed, errors>>
       ELSE /\ all_passed' = FALSE
            /\ errors' = <<ErrorLine(checks[i].name, result.message)>>
            /\ pc' = "loop"
            /\ UNCHANGED <<summaries, success>>
    /\ UNCHANGED <<args, config, strict_mode, auto_fix, interactive, warnings,
                   fixes_applied, i, section, env, result, exc, exit_code, evalLog,
                   fixLog, expired, heard, failedLog, absent, said, twice, db, git>>

\* lines 618-626 without line 625, all_passed = False
Policy_KeepsAllPassed ==
    /\ pc = "policy"
    /\ IF strict_mode
       THEN /\ summaries' = summaries + 1
            /\ success' = FALSE
            /\ pc' = "returned"
            /\ UNCHANGED <<all_passed, errors>>
       ELSE /\ errors' = Append(errors, ErrorLine(checks[i].name, result.message))
            /\ pc' = "loop"
            /\ UNCHANGED <<all_passed, summaries, success>>
    /\ UNCHANGED <<args, config, strict_mode, auto_fix, interactive, warnings,
                   fixes_applied, i, section, env, result, exc, exit_code, evalLog,
                   fixLog, expired, heard, failedLog, absent, said, twice, db, git>>

\* lines 618-626 without line 622: the strict abort returns without a summary
Policy_AbortsWithoutSummary ==
    /\ pc = "policy"
    /\ IF strict_mode
       THEN /\ UNCHANGED summaries
            /\ success' = FALSE
            /\ pc' = "returned"
            /\ UNCHANGED <<all_passed, errors>>
       ELSE /\ all_passed' = FALSE
            /\ errors' = Append(errors, ErrorLine(checks[i].name, result.message))
            /\ pc' = "loop"
            /\ UNCHANGED <<summaries, success>>
    /\ UNCHANGED <<args, config, strict_mode, auto_fix, interactive, warnings,
                   fixes_applied, i, section, env, result, exc, exit_code, evalLog,
                   fixLog, expired, heard, failedLog, absent, said, twice, db, git>>

\* lines 618-626 with line 626 before the test of strict_mode: the failure is
\* appended to errors in both modes
Policy_RecordsInStrict ==
    /\ pc = "policy"
    /\ IF strict_mode
       THEN /\ summaries' = summaries + 1                     \* _print_summary(False)
            /\ success' = FALSE
            /\ pc' = "returned"
            /\ errors' = Append(errors, ErrorLine(checks[i].name, result.message))
            /\ UNCHANGED all_passed
       ELSE /\ all_passed' = FALSE
            /\ errors' = Append(errors, ErrorLine(checks[i].name, result.message))
            /\ pc' = "loop"
            /\ UNCHANGED <<summaries, success>>
    /\ UNCHANGED <<args, config, strict_mode, auto_fix, interactive, warnings,
                   fixes_applied, i, section, env, result, exc, exit_code, evalLog,
                   fixLog, expired, heard, failedLog, absent, said, twice, db, git>>

\* lines 618-626: a check that failed for good
Policy ==
    /\ pc = "policy"
    /\ IF strict_mode
       THEN /\ summaries' = summaries + 1                     \* _print_summary(False)
            /\ success' = FALSE
            /\ pc' = "returned"
            /\ UNCHANGED <<all_passed, errors>>
       ELSE /\ all_passed' = FALSE
            /\ errors' = Append(errors, ErrorLine(checks[i].name, result.message))
            /\ pc' = "loop"
            /\ UNCHANGED <<summaries, success>>
    /\ UNCHANGED <<args, config, strict_mode, auto_fix, interactive, warnings,
                   fixes_applied, i, section, env, result, exc, exit_code, evalLog,
                   fixLog, expired, heard, failedLog, absent, said, twice, db, git>>

\* lines 628-629: the loop is exhausted
Finish ==
    /\ pc = "loop" /\ i = Len(checks)
    /\ summaries' = summaries + 1                             \* _print_summary(all_passed)
    /\ success' = all_passed
    /\ pc' = "returned"
    /\ UNCHANGED <<args, config, strict_mode, auto_fix, interactive, errors, warnings,
                   fixes_applied, i, section, env, result, all_passed, exc, exit_code,
                   evalLog, fixLog, expired, heard, failedLog, absent, said, twice, db, git>>

\* main, line 703: sys.exit(0 if success else 1)
Exit ==
    /\ pc = "returned"
    /\ exit_code' = IF success THEN 0 ELSE 1
    /\ pc' = "exited"
    /\ UNCHANGED <<args, config, strict_mode, auto_fix, interactive, errors, warnings,
                   fixes_applied, i, section, env, result, all_passed, success, exc,
                   evalLog, fixLog, summaries, expired, heard, failedLog,
                   absent, said, twice, db, git>>

\* main, lines 707-712: except Exception
Unexpected ==
    /\ pc = "raised"
    /\ exit_code' = 1
    /\ pc' = "exited"
    /\ UNCHANGED <<args, config, strict_mode, auto_fix, interactive, errors, warnings,
                   fixes_applied, i, section, env, result, all_passed, success, exc,
                   evalLog, fixLog, summaries, expired, heard, failedLog,
                   absent, said, twice, db, git>>

\* main, lines 704-706: except KeyboardInterrupt.  _run_command catches
\* Exception only, so an interrupt while a child process runs leaves
\* run_all_checks; an interrupt at a prompt is caught by _confirm.
KeyboardInterrupt ==
    /\ \/ pc = "check" /\ \E sec \in Sections(config.kind, checks[i].key) :
                            CallsExternal(i, sec)
       \/ pc = "recheck" /\ CallsExternal(i, section)
       \/ pc = "fix"
    /\ exc' = "KeyboardInterrupt"
    /\ exit_code' = 130
    /\ pc' = "exited"
    /\ UNCHANGED <<args, config, strict_mode, auto_fix, interactive, errors, warnings,
                   fixes_applied, i, section, env, result, all_passed, success,
                   evalLog, fixLog, summaries, expired, heard, failedLog,
                   absent, said, twice, db, git>>

Next ==
    \/ Construct
    \/ ApplyArgs
    \/ LoopNext
    \/ Evaluate
    \/ ConfirmFix
    \/ Fix
    \/ Recheck
    \/ Policy
    \/ Finish
    \/ Exit
    \/ Unexpected
    \/ KeyboardInterrupt

Spec == Init /\ [][Next]_vars

\* a run in which every step that can be taken is taken in the end: every
\* child process returns or runs out of time (_run_command, timeout of line
\* 130) and every prompt is answered or closed
SpecFair == Init /\ [][Next]_vars /\ WF_vars(Next)

---------------------------------------------------------------------------
(* Two runs of run_all_checks, one after the other, on one working tree *)

\* the working trees the first run may start on: flake8 is installed
TwiceTrees ==
    {[NoEnv EXCEPT !.installed = {"flake8"} \cup t, !.lint = l, !.drift = d]
       : t \in SUBSET {"black"}, l \in BOOLEAN, d \in BOOLEAN}

\* the configuration file of both runs: the Linter and the Django check are
\* enabled with all their keys, the other checks are disabled
TwiceSection(key, autoMigrate) ==
    CASE key = "linter" -> [DefaultSection EXCEPT !.keys = {"exclude", "max_line_length"}]
      [] key = "django" -> [DefaultSection EXCEPT !.auto_migrate = autoMigrate]
      [] OTHER -> [DefaultSection EXCEPT !.enabled = FALSE]

TwiceStarts ==
    {[run |-> 1, at |-> 0, over |-> FALSE, tree |-> t, strict_mode |-> s,
      interactive |-> it, auto_migrate |-> am, first |-> <<>>, second |-> <<>>]
       : t \in TwiceTrees, s \in BOOLEAN, it \in BOOLEAN, am \in BOOLEAN}

InitTwice == args \in {[fix |-> FALSE, yes |-> FALSE, from_hook |-> FALSE, only |-> <<>>]}
             /\ Fresh /\ twice \in TwiceStarts /\ db = NoRows /\ git = NoGit

\* nothing outside the program interferes with the evaluation: no exception,
\* no command that times out or fails for a reason of its own, and an
\* operator who agrees to every prompt
Steady(o) ==
    /\ o.raised = "none"
    /\ ~o.st.expired
    /\ o.st.inputs \subseteq {"yes"}
    /\ o.st.facts \cap {<<"makemigrations", "failed">>, <<"check", "failed">>} = {}

\* lines 583-626 with auto_fix off: the next check of the current run is
\* evaluated on the tree as the checks before it left it
TwiceEvaluate ==
    /\ twice.run \in {1, 2} /\ ~twice.over /\ twice.at < Len(checks)
    /\ LET k == twice.at + 1
           self == [interactive |-> twice.interactive, auto_fix |-> FALSE]
           sec == TwiceSection(checks[k].key, twice.auto_migrate)
       IN  \E o \in {x \in CheckFunc(k, self, sec, Enter(twice.tree, <<>>, <<>>))
                        : Steady(x)} :
             twice' = [twice EXCEPT
                         !.at = k,
                         !.tree = EnvOf(o.st),
                         !.first = IF twice.run = 1 THEN Append(@, o.result.passed) ELSE @,
                         !.second = IF twice.run = 2 THEN Append(@, o.result.passed) ELSE @,
                         !.over = (twice.strict_mode /\ ~o.result.passed)
                                  \/ k = Len(checks)]
    /\ UNCHANGED <<runVars, db, git>>

\* the program is started again; nothing touched the tree in between
TwiceAgain ==
    /\ twice.run = 1 /\ twice.over
    /\ twice' = [twice EXCEPT !.run = 2, !.at = 0, !.over = FALSE]
    /\ UNCHANGED <<runVars, db, git>>

NextTwice ==
    \/ TwiceEvaluate
    \/ TwiceAgain

SpecTwice == InitTwice /\ [][NextTwice]_vars

---------------------------------------------------------------------------
(* accounts: UserManager, the post_save receivers, User.activate/deactivate *)

MaxUsers == 2

\* the addresses callers pass; normalize_email lowers the domain part
Emails == {"", "a@CCSA.fr", "A@ccsa.fr", "a@ccsa.fr", "b@ccsa.fr"}

NormalizeEmail(email) == IF email = "a@CCSA.fr" THEN "a@ccsa.fr" ELSE email

\* str.lower
Lower(email) == IF email \in {"a@CCSA.fr", "A@ccsa.fr"} THEN "a@ccsa.fr" ELSE email

\* **extra_fields as far as the manager looks at it: any of the two flags
ExtraFields == UNION {[K -> BOOLEAN] : K \in SUBSET {"is_staff", "is_superuser"}}

\* dict.setdefault
SetDefault(ef, key, value) == IF key \in DOMAIN ef THEN ef ELSE ef @@ (key :> value)

\* the value a model field gets: the keyword if passed, else the field's default
Field(ef, key, default) == IF key \in DOMAIN ef THEN ef[key] ELSE default

\* UserProfile.objects.create(user=instance): user is a OneToOneField
ProfileCreate(d, k) ==
    IF \E p \in DOMAIN d.profiles : d.profiles[p] = k
    THEN [d EXCEPT !.made = Append(@, k), !.raised = "IntegrityError"]
    ELSE [d EXCEPT !.made = Append(@, k), !.profiles = Append(@, k)]

\* a receiver that creates the profile on every save
CreateUserProfile_OnEverySave(d, k, created) == ProfileCreate(d, k)

\* signals.py lines 9-13
CreateUserProfile(d, k, created) == IF created THEN ProfileCreate(d, k) ELSE d

\* signals.py lines 16-20: instance.profile.save() writes the row it read
SaveUserProfile(d, k) == d

\* post_save.send: the receivers in the order they were connected; an
\* exception of a receiver leaves send
PostSave(d, k, created) ==
    LET d1 == CreateUserProfile(d, k, created)
    IN  IF d1.raised # "none" THEN d1 ELSE SaveUserProfile(d1, k)

\* Model.save of a new User: the INSERT (email is unique), then post_save
InsertUser(d, row) ==
    IF \E k \in DOMAIN d.users : d.users[k].email = row.email
    THEN [d EXCEPT !.raised = "IntegrityError"]
    ELSE PostSave([d EXCEPT !.users = Append(@, row)], Len(d.users) + 1, TRUE)

\* lines 20-23 assigning the flags for every user
FirstUserDefaults_AlwaysAssigns(ef, exists) ==
    [k \in DOMAIN ef \cup {"is_staff", "is_superuser"} |-> TRUE]

\* managers.py lines 20-23
FirstUserDefaults(ef, exists) ==
    IF ~exists
    THEN SetDefault(SetDefault(ef, "is_staff", TRUE), "is_superuser", TRUE)
    ELSE ef

\* managers.py lines 12-28; via and given record the call for the claims
PrivateCreateUser(d, email, extra_fields, via, given) ==
    IF email = ""
    THEN [d EXCEPT !.raised = "ValueError"]
    ELSE LET ef == FirstUserDefaults(extra_fields, d.users # <<>>)
         IN  InsertUser(d, [email |-> NormalizeEmail(email),
                            is_staff |-> Field(ef, "is_staff", FALSE),
                            is_superuser |-> Field(ef, "is_superuser", FALSE),
                            is_active |-> TRUE,
                            via |-> via, given |-> given])

\* managers.py lines 30-34
CreateUser(d, email, extra_fields) ==
    PrivateCreateUser(d, email,
                      SetDefault(SetDefault(extra_fields, "is_staff", FALSE),
                                 "is_superuser", FALSE),
                      "create_user", DOMAIN extra_fields)

\* managers.py lines 36-47
CreateSuperuser(d, email, extra_fields) ==
    LET ef == SetDefault(SetDefault(extra_fields, "is_staff", TRUE), "is_superuser", TRUE)
    IN  IF ~ef["is_staff"] \/ ~ef["is_superuser"]
        THEN [d EXCEPT !.raised = "ValueError"]
        ELSE PrivateCreateUser(d, email, ef, "create_superuser", DOMAIN extra_fields)

InitUsers == args \in {[fix |-> FALSE, yes |-> FALSE, from_hook |-> FALSE, only |-> <<>>]}
             /\ Fresh /\ twice = Once /\ db = NoRows /\ git = NoGit

CallCreateUser ==
    /\ Len(db.users) < MaxUsers
    /\ \E email \in Emails : \E ef \in ExtraFields :
          db' = CreateUser([db EXCEPT !.raised = "none"], email, ef)
    /\ UNCHANGED <<runVars, twice, git>>

CallCreateSuperuser ==
    /\ Len(db.users) < MaxUsers
    /\ \E email \in Emails : \E ef \in ExtraFields :
          db' = CreateSuperuser([db EXCEPT !.raised = "none"], email, ef)
    /\ UNCHANGED <<runVars, twice, git>>

\* forms.py lines 77-86 from register_view: a new User saved without the
\* manager, once clean_email found no user with this address (iexact)
RegistrationSave ==
    /\ Len(db.users) < MaxUsers
    /\ \E email \in Emails \ {""} :
          /\ \A k \in DOMAIN db.users : Lower(db.users[k].email) # Lower(email)
          /\ db' = InsertUser([db EXCEPT !.raised = "none"],
                           [email |-> Lower(email), is_staff |-> FALSE,
                            is_superuser |-> FALSE, is_active |-> TRUE,
                            via |-> "form", given |-> {}])
    /\ UNCHANGED <<runVars, twice, git>>

\* models.py lines 92-100, User.activate and User.deactivate: is_active is
\* set and the user, who is in the table, is saved
SetActive ==
    /\ \E k \in DOMAIN db.users : \E value \in BOOLEAN :
          db' = PostSave([db EXCEPT !.users[k].is_active = value, !.raised = "none"],
                         k, FALSE)
    /\ UNCHANGED <<runVars, twice, git>>

NextUsers ==
    \/ CallCreateUser
    \/ CallCreateSuperuser
    \/ RegistrationSave
    \/ SetActive

SpecUsers == InitUsers /\ [][NextUsers]_vars

---------------------------------------------------------------------------
(* scripts/install-hook.py: the pre-commit hook, its backup, and the hook  *)
(* script at work in a commit                                              *)

\* the calls of install_hook and uninstall_hook the model follows
MaxOps == 4

\* $? after "python scripts/pre_commit_check.py --from-hook": the statuses
\* main exits with (0, 1, 130), 2 when python cannot open the script and 127
\* when there is no python
PipelineStatus == {0, 1, 2, 127, 130}

\* the hook script passing the status of the pipeline on: exit $EXIT_CODE
HookExit_SameCode(code) == code

\* HOOK_CONTENT: if [ $EXIT_CODE -eq 0 ]; then ... exit 0 else ... exit 1
HookExit(code) == IF code = 0 THEN 0 ELSE 1

\* the repositories the installer is run in: without .git, or with .git on
\* POSIX or on Windows, with or without a pre-commit hook of the user's own
\* ("other"), and no backup
GitStarts ==
    {[NoGit EXCEPT !.os = o] : o \in {"posix", "nt"}}
    \cup {[NoGit EXCEPT !.dir = TRUE, !.os = o, !.hook = h, !.initial = h]
            : o \in {"posix", "nt"}, h \in {"none", "other"}}

\* the call op ended: value is what it returned (FALSE where an exception
\* left it), why the branch taken; the files are noted as the call left them
Done(g, op, value, why) ==
    [g EXCEPT !.ops = Append(@, [op |-> op, value |-> value, why |-> why,
                                 hook |-> g.hook, backup |-> g.backup])]

\* lines 66-94: write_text and chmod inside try, any exception gives False
WriteHook(g) ==
    { Done([g EXCEPT !.hook = "HOOK_CONTENT"], "install", TRUE, "installed"),
      Done([g EXCEPT !.hook = "HOOK_CONTENT"], "install", FALSE, "error"),  \* chmod
      Done(g, "install", FALSE, "error") }                                 \* write_text

\* lines 39-94.  Path.rename onto an existing pre-commit.backup replaces it on
\* POSIX and raises FileExistsError on Windows, outside the try statement;
\* input() raises EOFError when standard input is closed.
InstallHook(g) ==
    IF ~g.dir THEN {Done(g, "install", FALSE, "no .git")}
    ELSE IF g.hook = "none" THEN WriteHook(g)
    ELSE {Done(g, "install", FALSE, "EOFError")}
         \cup UNION {
             IF StripLower(l) \notin {"o", "oui", "y", "yes"}
             THEN {Done(g, "install", FALSE, "declined")}
             ELSE IF g.os = "nt" /\ g.backup # "none"
             THEN {Done(g, "install", FALSE, "FileExistsError")}
             ELSE WriteHook([g EXCEPT !.backup = g.hook, !.hook = "none"])
           : l \in Lines }

\* lines 97-120: unlink, then the backup renamed to pre-commit if there is one
UninstallHook(g) ==
    IF g.hook = "none" THEN {Done(g, "uninstall", TRUE, "no hook")}
    ELSE {Done(g, "uninstall", FALSE, "error")}                            \* unlink
         \cup IF g.backup = "none"
              THEN {Done([g EXCEPT !.hook = "none"], "uninstall", TRUE, "removed")}
              ELSE {Done([g EXCEPT !.hook = g.backup, !.backup = "none"],
                         "uninstall", TRUE, "restored"),
                    Done([g EXCEPT !.hook = "none"], "uninstall", FALSE, "error")}  \* rename

InitHook == args \in {[fix |-> FALSE, yes |-> FALSE, from_hook |-> FALSE, only |-> <<>>]}
            /\ Fresh /\ twice = Once /\ db = NoRows /\ git \in GitStarts

\* main without argument: install_hook()
Install ==
    /\ Len(git.ops) < MaxOps
    /\ git' \in InstallHook(git)
    /\ UNCHANGED <<runVars, twice, db>>

\* main with --uninstall: uninstall_hook()
Uninstall ==
    /\ Len(git.ops) < MaxOps
    /\ git' \in UninstallHook(git)
    /\ UNCHANGED <<runVars, twice, db>>

\* git commit with the installed hook: the script runs the pipeline in hook
\* mode and exits; the commit is made when the hook exits 0
Commit ==
    /\ git.hook = "HOOK_CONTENT"
    /\ \E code \in PipelineStatus :
          git' = [git EXCEPT !.commit = [pipeline |-> code, hook |-> HookExit(code)]]
    /\ UNCHANGED <<runVars, twice, db>>

NextHook ==
    \/ Install
    \/ Uninstall
    \/ Commit

SpecHook == InitHook /\ [][NextHook]_vars

---------------------------------------------------------------------------
(* What the claims are stated with *)

\* how many times x occurs in the sequence s
Count(s, x) == Cardinality({k \in DOMAIN s : s[k] = x})

\* the row of the table of run_all_checks that holds the check called name
IndexOf(name) == CHOOSE k \in DOMAIN checks : checks[k].name = name

\* the check names of the entries of self.errors, in order
Names(errs) == [k \in DOMAIN errs |-> errs[k][1]]

\* the names of s follow the order of the table, none twice
Ordered(s) == \A a, b \in DOMAIN s : a < b => IndexOf(s[a]) < IndexOf(s[b])

\* run_all_checks returned and main left through sys.exit of line 703
Left == pc = "exited" /\ exc = "none" /\ config.kind # "malformed"

\* the result in hand is a failure of the check the loop is at
FailedHere == i >= 1 /\ result.name = checks[i].name /\ ~result.passed

---------------------------------------------------------------------------
(* C1 *)

\* C1: in strict mode, once the final evaluation of a check has failed the
\* run is on its way out with the verdict false (exit code 1), that check is
\* the last one evaluated and no check after it in the table is evaluated:
\* a failed result is only ever in hand while a fix of that same check is
\* being tried or the run is returning.
C1_StrictStopsAtFirstFailure ==
    (strict_mode /\ result.name # "" /\ ~result.passed) =>
        /\ pc \in {"confirm", "fix", "recheck", "policy", "returned", "exited"}
        /\ result.name = checks[i].name
        /\ evalLog # <<>> /\ evalLog[Len(evalLog)] = result.name
        /\ \A k \in DOMAIN evalLog : IndexOf(evalLog[k]) <= i
        /\ errors = <<>>
        /\ pc \in {"policy", "returned"} => failedLog = <<result.name>>
        /\ pc = "returned" => ~success /\ summaries = 1
        /\ Left => exit_code = 1 /\ ~success

C1_Witness ==
    /\ strict_mode /\ pc = "returned" /\ ~success
    /\ result.name = "Django" /\ ~result.passed
    /\ evalLog = <<"Linter", "Tests", "Django">>

---------------------------------------------------------------------------
(* C2 *)

\* the fixer of the check the loop is at has been invoked and control is
\* past line 607
FixerReturned == i >= 1 /\ exc = "none" /\ fixLog # <<>>
                 /\ fixLog[Len(fixLog)].name = checks[i].name

\* C2 as the specification words it: whenever a fixer has been invoked the
\* check is evaluated a second time, whatever the fixer returned.
C2_ReevaluatesWhateverReturned ==
    (FixerReturned /\ pc \in {"policy", "loop", "returned"}) =>
        Count(evalLog, checks[i].name) = 2

\* C2, amended: a fixer that returned true is followed by exactly one
\* re-evaluation of the same check against the tree the fixer left; a
\* passing re-evaluation appends the check's name to fixes_applied, records
\* no error and lets the loop continue, a failing one goes to the strict or
\* non-strict policy.  A fixer that returned false is followed by no
\* re-evaluation: the first failure goes to the policy as it is.
C2_ReevaluatesOnceIfFixed ==
    FixerReturned =>
        LET n == checks[i].name
            v == fixLog[Len(fixLog)].value
        IN  /\ pc \in {"recheck", "policy", "loop", "returned", "exited"}
            /\ pc = "recheck" => v /\ Count(evalLog, n) = 1
            /\ pc # "recheck" =>
                 /\ Count(evalLog, n) = (IF v THEN 2 ELSE 1)
                 /\ result.name = n
                 /\ result.passed =>
                      /\ v /\ pc = "loop" /\ ~env.lint
                      /\ fixes_applied # <<>>
                      /\ fixes_applied[Len(fixes_applied)] = n
                      /\ n \notin {failedLog[k] : k \in DOMAIN failedLog}
                      /\ n \notin {errors[k][1] : k \in DOMAIN errors}
                 /\ ~result.passed =>
                      /\ n \notin {fixes_applied[k] : k \in DOMAIN fixes_applied}
                      /\ failedLog # <<>> /\ failedLog[Len(failedLog)] = n
                      /\ pc = "loop" => ~strict_mode /\ errors # <<>>
                                        /\ errors[Len(errors)][1] = n
                      /\ pc = "returned" => strict_mode /\ ~success

C2_Witness ==
    /\ FixerReturned /\ fixLog[Len(fixLog)].value
    /\ pc = "loop" /\ result.passed
    /\ Count(evalLog, "Linter") = 2 /\ fixes_applied = <<"Linter">>

---------------------------------------------------------------------------
(* C3 *)

\* strict mode with auto_fix: the Linter failed, fix_linter returned true
\* and the re-evaluation of the Linter passed
LinterFixed ==
    /\ strict_mode /\ auto_fix /\ exc = "none"
    /\ fixLog = <<[name |-> "Linter", value |-> TRUE]>>
    /\ Count(evalLog, "Linter") = 2
    /\ i > 1 \/ (i = 1 /\ pc = "loop" /\ result.passed)

\* every check of the table has passed and run_all_checks has returned
AllPassedAtEnd == i = Len(checks) /\ result.passed /\ pc \in {"returned", "exited"}

---------------------------------------------------------------------------
(* C4 *)

\* C4: in strict mode with auto_fix false (after the command line has been
\* applied), a Linter failure that can be fixed is never followed by the
\* confirmation prompt of the fix nor by fix_linter: the run returns false,
\* exits with code 1 and fixes_applied is empty.
C4_NoAutoFixNoFixer ==
    (strict_mode /\ ~auto_fix /\ FailedHere /\ result.name = "Linter"
       /\ result.can_fix) =>
        /\ pc \in {"policy", "returned", "exited"}
        /\ fixLog = <<>> /\ fixes_applied = <<>>
        /\ Count(evalLog, "Linter") = 1
        /\ heard \subseteq {"yes"}
        /\ pc = "returned" => ~success
        /\ pc = "exited" => exit_code = 1

C4_Witness ==
    /\ strict_mode /\ ~auto_fix /\ FailedHere /\ result.name = "Linter"
    /\ result.can_fix /\ pc = "exited" /\ exit_code = 1

---------------------------------------------------------------------------
(* C5 *)

\* C5: in non-strict mode a failed check never ends the loop: every final
\* failure is recorded in errors, one entry per failed check and in the
\* order of the table, and when run_all_checks returns all six checks have
\* been evaluated, whatever failed before them.
C5_NonStrictEvaluatesAll ==
    (~strict_mode /\ pc \notin {"start", "constructed"}) =>
        /\ Ordered(failedLog)
        /\ pc # "policy" => Names(errors) = failedLog
        /\ pc = "policy" => failedLog = Append(Names(errors), checks[i].name)
        /\ (pc = "returned" \/ Left) =>
             /\ i = Len(checks)
             /\ \A n \in CheckNames : Count(evalLog, n) >= 1
             /\ \A a, b \in DOMAIN evalLog :
                    a < b => IndexOf(evalLog[a]) <= IndexOf(evalLog[b])
             /\ Len(errors) = Len(failedLog)

C5_Witness ==
    /\ ~strict_mode /\ pc = "returned"
    /\ Names(errors) = <<"Linter", "Django", "Git">>
    /\ evalLog = <<"Linter", "Tests", "Django", "Sécurité", "Fichiers", "Git">>

---------------------------------------------------------------------------
(* C6 *)

\* C6: in non-strict mode the verdict run_all_checks returns is true
\* exactly when errors is empty, and the exit code is 0 exactly then; all
\* along the loop all_passed, the verdict to be, is true exactly when
\* errors is empty.
C6_NonStrictVerdict ==
    /\ (~strict_mode /\ pc \in {"loop", "check", "confirm", "fix", "recheck"}) =>
           (all_passed <=> errors = <<>>)
    /\ (~strict_mode /\ pc = "returned") => (success <=> errors = <<>>)
    /\ (~strict_mode /\ Left) => (exit_code = 0 <=> errors = <<>>)

C6_Witness ==
    /\ ~strict_mode /\ pc = "returned" /\ ~success /\ Len(errors) = 1
    /\ Names(errors) = <<"Fichiers">>

---------------------------------------------------------------------------
(* C7 *)

\* C7: once a prompt of an interactive run has met end of input or an
\* interrupt, the run is aborted: no summary is printed, run_all_checks
\* does not return a verdict, the loop takes no further check, and the
\* process leaves with code 130.
C7_EndOfInputAbortsRun ==
    "eof" \in heard =>
        /\ summaries = 0
        /\ pc \notin {"returned", "loop", "fix", "recheck"}
        /\ pc = "exited" => exit_code = 130

---------------------------------------------------------------------------
(* C8 *)

\* the operator answered no to "Corriger automatiquement ?" for the check
\* the loop is at
RefusedFix ==
    /\ "no" \in heard /\ FailedHere /\ exc = "none"
    /\ OfferFix(result, checks[i].fix_func, auto_fix)
    /\ pc # "confirm"

\* C8 as the specification words it: an explicit refusal at a prompt ends
\* the run at once as an operator abort, in strict and non-strict mode
\* alike, and not through the strict path of the check.
C8_RefusalAbortsRun ==
    "no" \in heard =>
        /\ summaries = 0
        /\ pc \notin {"policy", "returned", "loop", "fix", "recheck"}
        /\ pc = "exited" => exit_code = 130

\* C8, amended: an explicit refusal only declines the action that was
\* offered.  After a refused fix the fixer is not invoked, the check is not
\* evaluated again and its failure goes through the ordinary policy: in
\* strict mode the run returns false through the strict path of the check
\* (summary printed, exit code 1), in non-strict mode the failure is
\* recorded in errors and the loop goes on; the exit code is never 130.
C8_RefusalGoesToPolicy ==
    RefusedFix =>
        /\ fixLog = <<>> /\ Count(evalLog, checks[i].name) = 1
        /\ checks[i].name \notin {fixes_applied[k] : k \in DOMAIN fixes_applied}
        /\ failedLog # <<>> /\ failedLog[Len(failedLog)] = checks[i].name
        /\ exit_code # 130
        /\ strict_mode =>
             /\ pc \in {"policy", "returned", "exited"}
             /\ pc = "returned" => ~success /\ summaries = 1
             /\ pc = "exited" => exit_code = 1 /\ summaries = 1
        /\ ~strict_mode =>
             /\ pc \in {"policy", "loop"}
             /\ pc = "loop" => /\ errors # <<>>
                               /\ errors[Len(errors)][1] = checks[i].name
                               /\ i < Len(checks) /\ summaries = 0

C8_Witness ==
    /\ RefusedFix /\ ~strict_mode /\ pc = "loop"
    /\ Names(errors) = <<"Linter">>

---------------------------------------------------------------------------
(* C9 *)

\* C9: when the configuration file is well-formed or absent, no exception
\* leaves a check: the run ends with a verdict or by an interrupt of the
\* operator.
C9_NoExceptionEscapes ==
    config.kind \in {"default", "file"} =>
        /\ exc \in {"none", "KeyboardInterrupt"}
        /\ pc # "raised"

---------------------------------------------------------------------------
(* C10 *)

\* C10: a check one of whose external calls timed out does not pass.
C10_TimeoutFailsCheck ==
    (expired /\ exc = "none" /\ i >= 1 /\ result.name = checks[i].name) =>
        ~result.passed

---------------------------------------------------------------------------
(* C11 *)

\* C11: when a check has found a tool it requires (flake8 for the Linter,
\* bandit or safety for Sécurité) still missing after the install attempt,
\* a confirmation was asked for the install and the check does not pass.
C11_AbsentToolFailsCheck ==
    (absent # {} /\ exc = "none" /\ i >= 1 /\ result.name = checks[i].name) =>
        /\ said # {}
        /\ ~result.passed

---------------------------------------------------------------------------
(* C12 *)

\* C12: a result with can_fix true belongs to a check whose row of the
\* table holds a fix function.
C12_CanFixHasFixer ==
    (result.name # "" /\ result.can_fix) =>
        checks[IndexOf(result.name)].fix_func # NoFix

---------------------------------------------------------------------------
(* C13 *)

\* the entries of a sequence, as a set
Range(s) == {s[k] : k \in DOMAIN s}

C14_SameVerdictsTwice ==
    \A k \in DOMAIN twice.first \cap DOMAIN twice.second :
        twice.second[k] = twice.first[k]

\* C15: a non-interactive _confirm returns the configured auto_fix for every
\* prompt and reads no input, so what is on standard input cannot change what
\* the confirmations return.
C15_NonInteractiveNeverReads ==
    /\ \A af \in BOOLEAN : Confirm(FALSE, af) = {[value |-> af, input |-> "none"]}
    /\ (~interactive /\ pc \notin {"start", "constructed"})
          => (heard = {} /\ said \subseteq {auto_fix})

\* a non-interactive run with auto_fix off was asked and answered no unread
C15_Witness ==
    ~interactive /\ ~auto_fix /\ said = {FALSE} /\ heard = {}

\* C16: the process exits with 0 exactly when run_all_checks returned
\* success, with 130 exactly when the operator interrupted it, and with 1 only
\* when a check failed or the configuration file is malformed; there is no
\* other exit code.
C16_ExitCodes ==
    pc = "exited" =>
        /\ exit_code \in {0, 1, 130}
        /\ exit_code = 0 <=> (Left /\ success)
        /\ exit_code = 130 <=> exc = "KeyboardInterrupt"
        /\ exit_code = 1 => (config.kind = "malformed" \/ failedLog # <<>>)

\* C17: a malformed configuration file is fatal: the process exits with 1
\* before any check is evaluated and before any external process is started.
C17_MalformedConfigIsFatal ==
    config.kind = "malformed" =>
        /\ pc = "exited" /\ exit_code = 1
        /\ evalLog = <<>> /\ fixLog = <<>> /\ i = 0 /\ summaries = 0
        /\ ~expired /\ env = NoEnv /\ said = {} /\ heard = {}

\* the process has left through sys.exit(1) of _load_config
C17_Witness ==
    config.kind = "malformed" /\ pc = "exited" /\ exit_code = 1 /\ evalLog = <<>>

\* C18: with no configuration file the run has the built-in defaults: every
\* one of the six checks has an entry that is enabled, none is reported as
\* disabled, strict_mode and auto_fix are on, and interactive is on unless
\* the command line (--yes, --from-hook) turned it off.
C18_MissingConfigDefaults ==
    /\ \A k \in DOMAIN checks :
          \A sec \in Sections("default", checks[k].key) : sec.entry /\ sec.enabled
    /\ config.kind = "default" =>
          /\ strict_mode /\ auto_fix
          /\ pc = "constructed" => interactive
          /\ pc # "constructed" => (interactive <=> ~(args.yes \/ args.from_hook))
          /\ result.message # "Désactivé"

\* the first check is about to be evaluated with the defaults
C18_Witness ==
    /\ config.kind = "default" /\ pc = "check" /\ i = 1
    /\ strict_mode /\ auto_fix /\ interactive

\* C19: a well-formed configuration file that has no entry for a check is
\* not an error: the check is evaluated with its defaults, so the run never
\* ends on the lookup of a check's own section.
C19_MissingEntryIsNotAnError ==
    \A k \in DOMAIN checks : exc # KeyError(checks[k].key)

\* C20: with --from-hook the run is non-interactive with auto_fix on,
\* whatever the configuration file says: every confirmation of the run
\* returns true and no line is read from the operator.
C20_HookModeNeverAsks ==
    (args.from_hook /\ config.kind # "malformed" /\ pc \notin {"start", "constructed"})
        => /\ ~interactive /\ auto_fix
           /\ heard = {} /\ said \subseteq {TRUE}

\* a hook run whose confirmation returned true is about to invoke the fixer
C20_Witness ==
    args.from_hook /\ config.kind = "file" /\ said = {TRUE} /\ heard = {} /\ pc = "fix"

\* C21: with --only naming a subset of the checks, only the named checks
\* are evaluated in the run.
C21_OnlyNamedChecksEvaluated ==
    args.only # <<>> =>
        \A n \in Range(evalLog) : checks[IndexOf(n)].key \in Range(args.only)

C23_StrictKeepsErrorsEmpty ==
    strict_mode => errors = <<>>

\* a strict run has been aborted on a failed check and errors is still empty
C23_Witness ==
    /\ strict_mode /\ pc = "returned" /\ ~success
    /\ FailedHere /\ failedLog # <<>> /\ errors = <<>>

\* every evaluation of check_git that read a non-empty last commit message
\* not matching the pattern of the allow-list returned a passed result and
\* appended the one warning with the expected format
MismatchOnlyWarns ==
    \A sec \in FileSections("git") : \A it \in BOOLEAN :
        \A o \in CheckGit([interactive |-> it, auto_fix |-> TRUE], sec,
                           Enter(NoEnv, <<>>, <<>>)) :
            \A m \in LastMessages \ {""} :
                (<<"last_message", m>> \in o.st.facts /\ ~Matches(sec.allowed_types, m))
                    => /\ o.raised = "none" /\ o.result.passed
                       /\ o.st.warnings = <<ConventionWarning>>

\* C24: a non-empty last commit message that does not match the pattern of
\* the allow-list makes check_git return passed = true with one warning that
\* states the expected format; the mismatch never gives a failed result and
\* never sends the run to the failure policy.
C24_MismatchIsOnlyAWarning ==
    /\ MismatchOnlyWarns
    /\ (result.name = "Git" /\ Count(warnings, ConventionWarning) > 0)
          => /\ result.passed /\ pc # "policy"
             /\ Count(warnings, ConventionWarning) = 1

\* the Git check has passed with the warning and the loop goes on to its end
C24_Witness ==
    /\ i = IndexOf("Git") /\ result.name = "Git" /\ result.passed
    /\ warnings = <<ConventionWarning>> /\ pc = "loop"

Danger(o) ==
    o.raised = "none" /\ ~o.result.passed /\ o.result.message = "Fichiers sensibles commités!"

\* every evaluation of check_files over every list of forbidden files and
\* every tree: the DANGER failure needs a tracked file, its details are
\* lines of tracked files, and when no git call timed out the failure
\* occurs exactly when a tracked file exists, with a line for each
ForbiddenVerdict ==
    \A sec \in {x \in FileSections("files") : "forbidden_files" \in x.keys} :
        \A o \in CheckFiles([interactive |-> TRUE, auto_fix |-> TRUE], sec,
                             Enter(NoEnv, <<>>, <<>>)) :
            LET inGit == {f \in Range(sec.forbidden_files) : <<f, "tracked">> \in o.st.facts}
                named == {FoundLine(f, TRUE) : f \in inGit}
            IN  /\ Danger(o) => (inGit # {} /\ Range(o.result.details) \subseteq named)
                /\ ~o.st.expired => (Danger(o) <=> (inGit # {}))
                /\ ~o.st.expired => (Danger(o) => (Range(o.result.details) = named))

\* C25: check_files fails with the DANGER result if and only if a forbidden
\* file of the configuration exists and git reports it as tracked; the
\* details name every tracked forbidden file and no other; a forbidden file
\* that exists untracked does not make the check fail.
C25_TrackedForbiddenFileFails ==
    /\ ForbiddenVerdict
    /\ result.message = "Fichiers sensibles commités!"
          => /\ result.name = "Fichiers" /\ ~result.passed
             /\ result.details # <<>>
             /\ \A k \in DOMAIN result.details : HasDanger(result.details[k])

\* both forbidden files are tracked and the check has failed naming both
C25_Witness ==
    /\ pc = "policy" /\ ~result.passed
    /\ result.message = "Fichiers sensibles commités!"
    /\ result.details = <<FoundLine(".env", TRUE), FoundLine("db.sqlite3", TRUE)>>

\* the lines of the .gitignore an evaluation of check_files read
ContentRead(o) == {line \in GitignoreLines : <<".gitignore", line>> \in o.st.facts}

\* C26: when .gitignore exists, check_files fails on it if and only if one
\* of the required entries is not an entry (a line) of the file, and the
\* details of the failure list exactly the required entries that are
\* missing: this holds of every evaluation the run can make of the check
\* once the loop has reached it.
C26_GitignoreEntries ==
    (pc = "check" /\ i = IndexOf("Fichiers")) =>
        \A sec \in {x \in Sections(config.kind, "files") : "forbidden_files" \in x.keys} :
            \A o \in CheckFiles(Self, sec, Enter(NoEnv, <<>>, <<>>)) :
                LET absentEntries ==
                        SelectSeq(required, LAMBDA item : item \notin ContentRead(o))
                IN  <<".gitignore", "present">> \in o.st.facts
                      => /\ (~o.result.passed) <=> (absentEntries # <<>>)
                         /\ (~o.result.passed) => (o.result.details = Manquant(absentEntries))

\* the sub-scans of check_security in the order they run
SubScans == <<"Bandit", "Safety", "Secrets", "Patterns">>

\* the name under which the run of a sub-scan is recorded: the tool for the
\* two configured scanners
Scanner(name) ==
    CASE name = "Bandit" -> "bandit"
      [] name = "Safety" -> "safety"
      [] OTHER           -> name

\* the details a failing sub-scan brings with it (the matches d for Patterns)
OwnDetails(name, d) ==
    CASE name = "Bandit"   -> <<>>
      [] name = "Safety"   -> <<"Vulnérabilités détectées">>
      [] name = "Secrets"  -> <<"Vérifiez le fichier .secrets.baseline">>
      [] name = "Patterns" -> d

\* one entry naming each failing sub-scan, each followed by its own details
RECURSIVE Expected(_, _)
Expected(names, d) ==
    IF names = <<>> THEN <<>>
    ELSE <<DetailLine([name |-> Head(names)])>> \o OwnDetails(Head(names), d)
         \o Expected(Tail(names), d)

\* every evaluation of check_security, over every section, machine and mode
SecurityVerdict ==
    \A sec \in {x \in FileSections("security") : "tools" \in x.keys /\ x.enabled} :
      \A e \in Envs(IndexOf("Sécurité"), sec) : \A it \in BOOLEAN : \A af \in BOOLEAN :
        \A o \in CheckSecurity([interactive |-> it, auto_fix |-> af], sec,
                                Enter(e, <<>>, <<>>)) :
            LET failing == SelectSeq(SubScans, LAMBDA n : <<Scanner(n), "failed">> \in o.st.facts)
            IN  /\ o.raised = "none"
                /\ (~o.result.passed) <=> (failing # <<>>)
                /\ (~o.result.passed) =>
                      \E d \in DangerousPatterns \ {<<>>} :
                          o.result.details = Expected(failing, d)
                /\ o.result.passed => (o.result.details = <<>>)

\* C27: check_security returns a failed result if and only if at least one
\* of its sub-scans failed, and the details of the failed result hold one
\* entry naming each failing sub-scan, followed by that sub-scan's details.
C27_SecurityAggregation ==
    /\ SecurityVerdict
    /\ result.name = "Sécurité" =>
          /\ result.passed <=> (result.details = <<>>)
          /\ (~result.passed) =>
                Head(result.details) \in {DetailLine([name |-> SubScans[k]]) : k \in DOMAIN SubScans}

\* Bandit and the pattern scan failed, the other sub-scans did not
C27_Witness ==
    /\ pc = "policy" /\ result.name = "Sécurité" /\ ~result.passed
    /\ result.details = <<"Bandit: stdout or stderr",
                           "Patterns: Patterns dangereux détectés",
                           "settings.py: DEBUG = True (vérifiez que c'est intentionnel)">>

\* C28: the first user ever created, through create_user on an empty
\* table, is a superuser: is_superuser and is_staff are true.
C28_FirstUserIsSuperuser ==
    (db.users # <<>> /\ db.users[1].via = "create_user")
        => (db.users[1].is_superuser /\ db.users[1].is_staff)

\* C29 as the specification words it: a user created through create_user
\* while a user already exists has is_superuser = false and is_staff = false.
C29_LaterUserIsNeverSuperuser ==
    \A k \in DOMAIN db.users :
        (k > 1 /\ db.users[k].via = "create_user")
            => (~db.users[k].is_superuser /\ ~db.users[k].is_staff)

\* C29, amended: a user created through create_user while a user already
\* exists has is_superuser = false and is_staff = false unless the caller
\* passed that flag to create_user itself; being created is never what makes
\* a later user staff or superuser.
C29_LaterUserGetsNoFlagByItself ==
    \A k \in DOMAIN db.users :
        (k > 1 /\ db.users[k].via = "create_user")
            => /\ "is_superuser" \notin db.users[k].given => ~db.users[k].is_superuser
               /\ "is_staff" \notin db.users[k].given => ~db.users[k].is_staff

\* a second user was created through create_user, with no flag passed, after
\* a superuser
C29_Witness ==
    /\ Len(db.users) = 2 /\ db.users[1].is_superuser
    /\ db.users[2].via = "create_user" /\ db.users[2].given = {}
    /\ ~db.users[2].is_superuser /\ ~db.users[2].is_staff

\* C30: after any sequence of creations and saves of users every User has
\* exactly one UserProfile: it is created once, when the user is created,
\* and a later save creates no other and does not attempt to.
C30_OneProfilePerUser ==
    /\ Len(db.profiles) = Len(db.users)
    /\ \A k \in DOMAIN db.users :
          Count(db.profiles, k) = 1 /\ Count(db.made, k) = 1

\* two users exist, the first was saved again after its creation
C30_Witness ==
    /\ Len(db.users) = 2 /\ ~db.users[1].is_active
    /\ db.profiles = <<1, 2>> /\ db.raised = "none"

\* the rows of the table evaluated so far, each once, in the order of the log
Evaluated == {IndexOf(evalLog[k]) : k \in DOMAIN evalLog}

\* C31: the checks are evaluated one at a time in the order of the table
\* (Linter, Tests, Django, Securite, Fichiers, Git): the log of evaluations
\* starts with the first row and moves from a row only to the same row or to
\* the next one; the first evaluation of a row starts only when every earlier
\* row has had its last evaluation and its fix, and until the run ends no row
\* before the one in hand is left out.
C31_OneAtATimeInOrder ==
    /\ [k \in DOMAIN checks |-> checks[k].name]
          = <<"Linter", "Tests", "Django", "Sécurité", "Fichiers", "Git">>
    /\ evalLog # <<>> => evalLog[1] = checks[1].name
    /\ \A k \in 1..(Len(evalLog) - 1) :
          IndexOf(evalLog[k + 1]) \in {IndexOf(evalLog[k]), IndexOf(evalLog[k]) + 1}
    /\ pc = "check" => Evaluated = 1..(i - 1)
    /\ pc \in {"loop", "confirm", "fix", "recheck", "policy"} => Evaluated = 1..i
    /\ \A f \in DOMAIN fixLog : IndexOf(fixLog[f].name) \in Evaluated
    /\ pc = "recheck" => Len(fixLog) > 0 /\ fixLog[Len(fixLog)].name = checks[i].name

\* the second row is about to be evaluated for the first time after the first
\* row was evaluated, fixed and evaluated again
C31_Witness ==
    /\ pc = "check" /\ i = 2
    /\ evalLog = <<"Linter", "Linter">>
    /\ Len(fixLog) = 1

Extends(s, t, x) == s = t \/ s = Append(t, x)

FixSteps == {"black", "isort"}

\* every call of fix_linter, over every machine and tree: each sub-step ends
\* in exactly one way, and the value returned is True exactly when at least
\* one sub-step found its tool and the tool exited 0; one success is enough
\* next to a tool that failed and next to a tool that is not there
FixerVerdict ==
    LET calls == UNION { FixLinter(Enter(e, <<>>, <<>>)) : e \in Envs(1, DefaultSection) }
        Did(f, tool, how) == <<tool, how>> \in f.st.facts
    IN  /\ \A f \in calls :
              /\ \A tool \in FixSteps :
                    Cardinality({how \in {"formatted", "failed", "unavailable"}
                                   : Did(f, tool, how)}) = 1
              /\ f.value <=> (\E tool \in FixSteps : Did(f, tool, "formatted"))
              /\ (~f.value) <=> (\A tool \in FixSteps : ~Did(f, tool, "formatted"))
        /\ \A tool \in FixSteps : \A how \in {"failed", "unavailable"} :
              \E f \in calls : \E other \in FixSteps \ {tool} :
                  Did(f, tool, "formatted") /\ Did(f, other, how) /\ f.value

\* C33: fix_linter returns True when at least one of its two sub-steps (Black,
\* isort) found its tool and the tool exited 0, also when the other sub-step
\* failed or its tool is absent, and returns False only when neither
\* succeeded; "Linter" is in fixes_applied only after the fixer returned
\* True and the re-evaluation that followed passed.
C33_LenientFixer ==
    /\ FixerVerdict
    /\ \A k \in DOMAIN fixLog : fixLog[k].name = "Linter"
    /\ pc = "recheck" => fixLog[Len(fixLog)].value
    /\ "Linter" \in Range(fixes_applied) =>
          /\ [name |-> "Linter", value |-> TRUE] \in Range(fixLog)
          /\ Count(evalLog, "Linter") = 2
          /\ "Linter" \notin Range(failedLog)
    /\ (Count(evalLog, "Linter") = 2 /\ "Linter" \in Range(failedLog)) =>
          "Linter" \notin Range(fixes_applied)

\* the fixer returned True and the re-evaluation failed: nothing is recorded
C33_Witness ==
    /\ pc = "policy" /\ i = 1
    /\ fixLog = <<[name |-> "Linter", value |-> TRUE]>>
    /\ evalLog = <<"Linter", "Linter">>
    /\ fixes_applied = <<>>

\* the text check_django gives with a result that failed on missing migrations
MakeMigrationsHint == <<"Exécutez: python manage.py makemigrations">>

\* every evaluation of an enabled check_django, over every section, tree and
\* mode: a sub-step runs only after the sub-steps before it succeeded, and
\* with drift the result passes exactly when auto_migrate is set, the
\* confirmation was given and makemigrations exited 0
DjangoVerdict ==
    \A sec \in {x \in FileSections("django") : x.entry /\ x.enabled} :
      \A e \in Envs(IndexOf("Django"), sec) : \A it \in BOOLEAN : \A af \in BOOLEAN :
        \A o \in CheckDjango([interactive |-> it, auto_fix |-> af], sec,
                              Enter(e, <<>>, <<>>)) :
            LET Did(what, how) == <<what, how>> \in o.st.facts
                deploy == Did("check --deploy", "ok") \/ Did("check --deploy", "failed")
                drift == Did("makemigrations --check", "drift")
                made == Did("makemigrations", "created") \/ Did("makemigrations", "failed")
            IN  /\ o.raised = "none"
                /\ Did("check", "ok") \/ Did("check", "failed")
                /\ deploy => (Did("check", "ok") /\ sec.check_deploy)
                /\ Did("check", "failed") => (~deploy /\ ~drift /\ ~o.result.passed)
                /\ Did("check --deploy", "failed") => (~drift /\ ~o.result.passed)
                /\ (Did("check", "ok") /\ sec.check_deploy) => deploy
                /\ drift => /\ Did("check", "ok") /\ sec.check_migrations
                            /\ sec.check_deploy => Did("check --deploy", "ok")
                /\ made => (drift /\ sec.auto_migrate /\ TRUE \in o.st.said)
                /\ drift =>
                      /\ o.result.passed <=> /\ sec.auto_migrate
                                              /\ TRUE \in o.st.said
                                              /\ Did("makemigrations", "created")
                      /\ (~o.result.passed) =>
                            /\ o.result.message = "Migrations manquantes"
                            /\ o.result.details = MakeMigrationsHint
                /\ (~drift /\ ~Did("check", "failed") /\ ~Did("check --deploy", "failed"))
                      => o.result.passed

\* C34: in check_django the sub-steps are gated in sequence ("manage.py
\* check", then "check --deploy" if enabled, then "makemigrations --check" if
\* enabled), and when migrations are missing the check passes only if
\* auto_migrate is configured, the confirmation is given and makemigrations
\* exits 0; in every other case with missing migrations it fails with the
\* instruction to run makemigrations.
C34_DjangoGates ==
    /\ DjangoVerdict
    /\ (pc \in {"loop", "policy"} /\ i = IndexOf("Django")
          /\ result.message = "Migrations manquantes")
         => (~result.passed /\ result.details = MakeMigrationsHint
             /\ "Migrations créées" \notin Range(fixes_applied))
    /\ "Migrations créées" \in Range(fixes_applied)
         => (config.kind # "default" /\ i >= IndexOf("Django")
             /\ "Django" \notin Range(failedLog))
    /\ (pc = "loop" /\ i = IndexOf("Django")
          /\ "Migrations créées" \in Range(fixes_applied))
         => (TRUE \in said /\ result.passed)

\* migrations were missing, the operator agreed to have them generated and
\* makemigrations failed: the Django check failed
C34_Witness ==
    /\ pc = "policy" /\ i = IndexOf("Django")
    /\ result.message = "Migrations manquantes"
    /\ TRUE \in said

\* the entry of the details that names a failed secret scan
SecretsLine == DetailLine([name |-> "Secrets"])

\* every run of the secret detection of check_security, and every evaluation
\* of the check around it, over every section, machine and mode: the baseline
\* creation is attempted exactly when detection is on and the baseline is not
\* there; the scan runs, and adds one result, exactly when the baseline is
\* there after that; without baseline nothing is added and the verdict is
\* that of the other sub-scans
SecretsVerdict ==
    \A sec \in {x \in FileSections("security") : "tools" \in x.keys /\ x.enabled} :
      \A e \in Envs(IndexOf("Sécurité"), sec) :
        /\ \A x \in SecuritySecrets(sec, Enter(e, <<>>, <<>>), <<>>) :
              LET Did(what, how) == <<what, how>> \in x.st.facts
                  scanned == Did("Secrets", "passed") \/ Did("Secrets", "failed")
              IN  /\ Did("baseline", "attempted") <=> (sec.check_secrets /\ ~e.baseline)
                  /\ scanned <=> (sec.check_secrets /\ x.st.baseline)
                  /\ Did("Secrets", "skipped") <=> (sec.check_secrets /\ ~x.st.baseline)
                  /\ Len(x.results) = IF scanned THEN 1 ELSE 0
                  /\ scanned => /\ x.results[1].name = "Secrets"
                                /\ x.results[1].ok <=> Did("Secrets", "passed")
        /\ \A it \in BOOLEAN : \A af \in BOOLEAN :
            \A o \in CheckSecurity([interactive |-> it, auto_fix |-> af], sec,
                                    Enter(e, <<>>, <<>>)) :
              LET Did(what, how) == <<what, how>> \in o.st.facts
              IN  /\ SecretsLine \in Range(o.result.details) <=> Did("Secrets", "failed")
                  /\ Did("Secrets", "failed") => (o.st.baseline /\ ~o.result.passed)
                  /\ (~o.st.baseline \/ ~sec.check_secrets) =>
                        (o.result.passed <=>
                           \A n \in {"bandit", "safety", "Patterns"} : ~Did(n, "failed"))
        /\ (sec.check_secrets /\ ~e.baseline) =>
              \E x, y \in SecuritySecrets(sec, Enter(e, <<>>, <<>>), <<>>) :
                  x.st.baseline /\ ~y.st.baseline

\* C35: in check_security, when secret detection is enabled and
\* .secrets.baseline is absent, the creation of the baseline is attempted
\* before the scan; the secret scan runs and adds a passed or failed result
\* only if the baseline exists after that, and otherwise adds no result, so
\* that it cannot make the check fail.
C35_SecretsNeedBaseline ==
    /\ SecretsVerdict
    /\ (result # NoResult /\ SecretsLine \in Range(result.details))
         => (i = IndexOf("Sécurité") /\ ~result.passed /\ config.kind = "file")

\* the Securite check failed with a secret scan among its failed sub-scans
C35_Witness ==
    /\ pc = "policy" /\ i = IndexOf("Sécurité")
    /\ SecretsLine \in Range(result.details)

\* C36: with auto_fix false no remediation is performed in the run, in
\* interactive and in non-interactive mode alike: no prompt of a check is
\* answered by a yes (each yes is followed by "pip install" or by
\* "makemigrations"), the fixer is never called and fixes_applied stays empty.
C36_NoRemediationWithoutAutoFix ==
    (pc \in {"loop", "check", "confirm", "fix", "recheck", "policy", "returned"}
      /\ ~auto_fix)
    => (fixes_applied = <<>> /\ fixLog = <<>> /\ TRUE \notin said)

\* C37: every run ends (main leaves through sys.exit); on the way each check
\* is evaluated at most twice, the fixer is called at most once, and only the
\* Linter is evaluated twice.
C37_RunTerminates ==
    /\ <>(pc = "exited")
    /\ [](/\ \A n \in CheckNames : Count(evalLog, n) <= 2
          /\ \A n \in CheckNames \ {"Linter"} : Count(evalLog, n) <= 1
          /\ Len(fixLog) <= 1
          /\ Count(evalLog, "Linter") = 2 => Len(fixLog) = 1)

\* a run that ended after the Linter was fixed and evaluated a second time
\* and every check was evaluated
C37_Witness ==
    /\ pc = "exited"
    /\ Count(evalLog, "Linter") = 2
    /\ Len(evalLog) = Len(checks) + 1
    /\ Len(fixLog) = 1

\* C38: the installed hook exits 0 exactly when the pipeline it ran in hook
\* mode exited 0; for every other status of the pipeline, 130 included, it
\* exits 1 and the commit is blocked.
C38_HookBlocksOnAnyFailure ==
    /\ {0, 1, 130} \subseteq PipelineStatus
    /\ \A code \in PipelineStatus :
          /\ HookExit(code) \in {0, 1}
          /\ HookExit(code) = 0 <=> code = 0
    /\ git.commit # NoCommit =>
          /\ git.commit.pipeline \in PipelineStatus
          /\ git.commit.hook = 0 <=> git.commit.pipeline = 0
          /\ git.commit.pipeline # 0 => git.commit.hook = 1

\* a commit whose pipeline was interrupted: the hook exited 1
C38_Witness == git.commit = [pipeline |-> 130, hook |-> 1]

\* the files as they were before call j of the installer
HookBefore(j) == IF j = 1 THEN git.initial ELSE git.ops[j - 1].hook

BackupBefore(j) == IF j = 1 THEN "none" ELSE git.ops[j - 1].backup

\* C39: after installs that succeeded followed by as many uninstalls, the
\* pre-commit hook is the one that was there before the first install, also
\* when the install was repeated; and an install the operator declined left
\* the hook and the backup as they were.
C39_InstallUninstallRoundTrip ==
    /\ \A k \in 1..MaxOps :
          ( /\ Len(git.ops) = 2 * k
            /\ \A j \in 1..k : git.ops[j].op = "install" /\ git.ops[j].value
            /\ \A j \in (k + 1)..(2 * k) : git.ops[j].op = "uninstall" /\ git.ops[j].value )
          => git.hook = git.initial
    /\ \A j \in DOMAIN git.ops :
          git.ops[j].why = "declined" =>
              (git.ops[j].hook = HookBefore(j) /\ git.ops[j].backup = BackupBefore(j))

====
